---- MODULE Spec2Model ----
(***************************************************************************)
(* Semantic retrieval engine of the Slack assistant: the embeddings module *)
(* (src/src/index.ts, createEmbeddings / preprocessText), the process      *)
(* entry point (main / shutdown) and the background indexer that the entry *)
(* point starts and stops.                                                 *)
(*                                                                         *)
(* Texts are sequences of tokens.  A token is one ordinary character, one  *)
(* whitespace character, or one piece of Slack markup that the regular     *)
(* expressions of preprocessText match as a whole.  Vectors are sequences  *)
(* of integers of length EMBEDDING_DIMENSIONS.                             *)
(***************************************************************************)
EXTENDS Integers, Sequences, FiniteSets, TLC

\* ------------------------------------------------------------------------
\* Bounds of the model
\* ------------------------------------------------------------------------
MaxTexts == 5          \* longest input array handed to createEmbeddings
MaxTs == 2             \* source timestamps run 1..MaxTs
MaxRestarts == 1       \* process restarts after a crash or an exit

\* ------------------------------------------------------------------------
\* Program constants (src/src/index.ts:463-466).  The source has 1024
\* dimensions and batches of 96; the model keeps the roles and scales the
\* values so that bounded inputs span several provider requests.
\* ------------------------------------------------------------------------
EMBEDDING_DIMENSIONS == 2
MAX_BATCH_SIZE == 2
MinLength == 10             \* processed.length < 10 (src/src/index.ts:607)

Min(a, b) == IF a < b THEN a ELSE b
Max(a, b) == IF a > b THEN a ELSE b

\* ------------------------------------------------------------------------
\* Text primitives
\* ------------------------------------------------------------------------
IsSpace(c) == c \in {" ", "\n", "\t"}

RECURSIVE TrimLeft(_)
TrimLeft(s) == IF s = <<>> THEN <<>>
               ELSE IF IsSpace(Head(s)) THEN TrimLeft(Tail(s)) ELSE s

RECURSIVE TrimRight(_)
TrimRight(s) == IF s = <<>> THEN <<>>
                ELSE IF IsSpace(s[Len(s)]) THEN TrimRight(SubSeq(s, 1, Len(s) - 1)) ELSE s

\* String.prototype.trim
Trim(s) == TrimRight(TrimLeft(s))

\* !text || text.trim().length === 0
IsBlank(text) == Len(text) = 0 \/ Len(Trim(text)) = 0

\* ------------------------------------------------------------------------
\* preprocessText (src/src/index.ts:586-612).  The markup tokens are the
\* substrings the regular expressions match as a whole; ordinary characters
\* are letters, which none of the expressions matches.
\* ------------------------------------------------------------------------
UserMention == "<@U1>"
ChannelMentionNamed == "<#C1|dev>"
ChannelMention == "<#C1>"
AngleLink == "<http://x>"
BareUrl == "http://x"
EmojiCode == ":ok:"

\* the replacements of lines 590-597, each on the token it matches
ExpandToken(tok) ==
  CASE tok = UserMention         -> <<"@", "u", "s", "e", "r">>
    [] tok = ChannelMentionNamed -> <<"#", "d", "e", "v">>
    [] tok = ChannelMention      -> <<"#", "c", "h", "a", "n", "n", "e", "l">>
    [] tok = AngleLink           -> <<"[", "l", "i", "n", "k", "]">>
    [] OTHER                     -> <<tok>>

RECURSIVE ExpandMarkup(_)
ExpandMarkup(text) ==
  IF text = <<>> THEN <<>> ELSE ExpandToken(Head(text)) \o ExpandMarkup(Tail(text))

RECURSIVE DropNonSpace(_)
DropNonSpace(text) ==
  IF text = <<>> \/ IsSpace(Head(text)) THEN text ELSE DropNonSpace(Tail(text))

\* line 598: https?:\/\/\S+ takes the URL and every non-space character after it
RECURSIVE ReplaceBareUrls(_)
ReplaceBareUrls(text) ==
  IF text = <<>> THEN <<>>
  ELSE IF Head(text) = BareUrl
       THEN <<"[", "l", "i", "n", "k", "]">> \o ReplaceBareUrls(DropNonSpace(Tail(text)))
       ELSE <<Head(text)>> \o ReplaceBareUrls(Tail(text))

\* line 601
RemoveEmoji(text) == SelectSeq(text, LAMBDA c : c # EmojiCode)

\* line 604, first half: every run of whitespace becomes one space
RECURSIVE CollapseSpaces(_)
CollapseSpaces(text) ==
  IF text = <<>> THEN <<>>
  ELSE IF IsSpace(Head(text))
       THEN <<" ">> \o CollapseSpaces(TrimLeft(Tail(text)))
       ELSE <<Head(text)>> \o CollapseSpaces(Tail(text))

\* `processed` as it reaches the length check of line 607
NormalForm(text) == Trim(CollapseSpaces(RemoveEmoji(ReplaceBareUrls(ExpandMarkup(text)))))

\* Faulty variant: the length check is left out.
preprocessTextKeepsShort(text) == NormalForm(text)

preprocessText(text) ==
  LET processed == Trim(CollapseSpaces(RemoveEmoji(ReplaceBareUrls(ExpandMarkup(text)))))
  IN IF Len(processed) < MinLength THEN <<>> ELSE processed

\* new Array(EMBEDDING_DIMENSIONS).fill(0)
ZeroVector == [d \in 1..EMBEDDING_DIMENSIONS |-> 0]

\* An unset slot of the results array (null in the source).
NULL == <<>>

VARIABLES
  \* --- createEmbeddings (one call in flight) ---
  ce_pc,          \* "idle" | "loop" | "await" | "delay" | "returned" | "thrown"
  ce_texts,       \* the argument texts
  ce_validTexts,  \* validTexts: <<[index, text]>>, index 0-based as in the source
  ce_results,     \* results: one slot per input, NULL while unset
  ce_i,           \* the loop variable i
  ce_ret,         \* the value the promise resolved to, NULL before that
  ce_trace,       \* provider requests and rate-limit delays, in order
  ce_failure,     \* what the provider rejected with and what the call threw
  \* --- createEmbedding (one call in flight) ---
  e1_pc,          \* "idle" | "await" | "returned" | "thrown"
  e1_text,        \* the argument text
  e1_requests,    \* the texts sent to the provider
  e1_ret,         \* the value the promise resolved to, NULL before that
  e1_failure,     \* what the provider rejected with and what the call threw
  \* --- the process (main / shutdown) ---
  ragEnabled,     \* config.rag.enabled
  proc,           \* "running" | "stopped"
  exitKind,       \* how the process last stopped: "none" | "crash" | "shutdown" | "error" | "startup"
  shutPc,         \* shutdown(): "none" | "stopSlack" | "stopMCP"
  dbOpen,         \* the SQLite database is open
  timerOn,        \* the indexer's interval timer is armed
  restarts,       \* process starts after the first one
  \* --- the source of truth (chat platform) ---
  source,         \* set of source records [id, scope, ts, text]
  clock,          \* last source timestamp handed out
  \* --- persisted index state ---
  store,          \* set of Records [id, text, vector, scope, ts]
  checkpoint,     \* scope -> lastIndexedTimestamp
  \* --- the indexer, in memory ---
  busy,           \* the single-flight flag
  inFlight,       \* number of sync cycles that have started and not ended
  scopeState,     \* scope -> "IDLE" | "SYNCING" | "FAILED"
  cycPc,          \* what the cycle awaits: "idle" (no cycle) | "next" (the fetch for
                  \* the next scope, or its end) | "embed" | "upsert" | "advance"
  todo,           \* scopes the running cycle has still to visit
  cur,            \* the scope being synced
  fetched,        \* records fetched for cur, ordered by timestamp
  vectors,        \* what batch embedding returned for them
  \* --- what the running cycle saw (for stating the properties) ---
  cpStart,        \* the checkpoints when the cycle started
  storeStart,     \* the ids stored when the cycle started
  cycFailed,      \* scopes that failed in this cycle
  cycDone,        \* scopes whose sync completed in this cycle
  cycFetched,     \* scope -> records fetched in this cycle
  \* --- executeTool('search_knowledge_base') (one call in flight) ---
  kb_pc,          \* "idle" | "findChannel" | "retrieve" | "broader" | "returned"
  kb_args,        \* the tool arguments [query, channel_name, limit]
  kb_query,       \* searchQuery
  kb_filter,      \* channelNameFilter as handed to the first retrieve
  kb_calls,       \* the retrieve calls made so far, in order
  kb_first,       \* what the first retrieve resolved to
  kb_broader,     \* what the second retrieve resolved to
  kb_out,         \* the string returned, by its parts
  \* --- processMessage (one request in flight) ---
  pm_pc,          \* "idle" | "memory" | "retrieve" | "model" | "tools" | "returned" | "thrown"
  pm_msg,         \* userMessage
  pm_rounds,      \* tool-use rounds so far
  pm_rag,         \* ragContext, ragUsed, sourcesCount
  pm_memoryUsed,  \* memoryUsed
  pm_retrieval,   \* how the retrieve call settled: "none" | "resolved" | "rejected"
  pm_requests,    \* the requests sent to the model, in order
  pm_resp,        \* what the promise settled to
  pm_history,     \* the messages stored for the session, oldest first
  pm_messages,    \* the local array `messages` of processMessage
  \* --- retrieve (one call in flight) ---
  rt_pc,          \* "idle" | "embed" | "search" | "rerank" | "returned" | "thrown"
  rt_query,       \* queryText
  rt_options,     \* limit, channelName, minScore, and whether re-ranking is on
  rt_queryVector, \* the embedded query
  rt_candidates,  \* what search returned
  rt_ret,         \* the results retrieve returned
  \* --- cosineSimilarity (one call) ---
  cs_pc,          \* "idle" | "returned" | "thrown"
  cs_a,           \* the argument a
  cs_b,           \* the argument b
  cs_ret,         \* the number returned
  cs_round,       \* where the double returned lies against that number: -1 | 0 | 1
  \* --- main() and shutdown(), step by step ---
  lc_pc,            \* what main() awaits: "start" | "vectorStore" | "docCount" | "memory"
                    \* | "mcp" | "slack" | "ready" | "exited"
  lc_memoryEnabled, \* config.memory.enabled
  lc_started,       \* the services started, in the order main() started them
  lc_stopped,       \* the services stopped, in the order shutdown() stopped them
  lc_shutdowns,     \* the shutdown() calls in flight, each at its awaited call
  \* --- TaskScheduler ---
  sc_isRunning,     \* isRunning
  sc_checkInterval, \* checkInterval is set
  sc_timers,        \* interval timers created and not cleared
  sc_jobs,          \* activeJobs: ids of the tasks with a cron job
  sc_tasks,         \* scheduled_tasks rows, by id: [status, cron, posts, user]
  sc_runs,          \* processPendingTasks calls and cron callbacks in flight
  sc_last           \* the last scheduler method called

embedVars == <<ce_pc, ce_texts, ce_validTexts, ce_results, ce_i, ce_ret, ce_trace,
               ce_failure>>
e1Vars == <<e1_pc, e1_text, e1_requests, e1_ret, e1_failure>>
indexVars == <<ragEnabled, proc, exitKind, shutPc, dbOpen, timerOn, restarts,
               source, clock, store, checkpoint, busy, inFlight, scopeState,
               cycPc, todo, cur, fetched, vectors,
               cpStart, storeStart, cycFailed, cycDone, cycFetched>>
kbVars == <<kb_pc, kb_args, kb_query, kb_filter, kb_calls, kb_first, kb_broader, kb_out>>
pmVars == <<pm_pc, pm_msg, pm_rounds, pm_rag, pm_memoryUsed, pm_retrieval, pm_requests,
            pm_resp, pm_history, pm_messages>>
rtVars == <<rt_pc, rt_query, rt_options, rt_queryVector, rt_candidates, rt_ret>>
csVars == <<cs_pc, cs_a, cs_b, cs_ret, cs_round>>
lcVars == <<lc_pc, lc_memoryEnabled, lc_started, lc_stopped, lc_shutdowns>>
scVars == <<sc_isRunning, sc_checkInterval, sc_timers, sc_jobs, sc_tasks, sc_runs, sc_last>>

\* What the steps of one component leave alone.
nonEmbedVars ==
  <<e1Vars, indexVars, kbVars, pmVars, rtVars, csVars, lcVars, scVars>>
nonSingleVars ==
  <<embedVars, indexVars, kbVars, pmVars, rtVars, csVars, lcVars, scVars>>
nonIndexVars ==
  <<embedVars, e1Vars, kbVars, pmVars, rtVars, csVars, lcVars, scVars>>
nonToolVars ==
  <<embedVars, e1Vars, indexVars, pmVars, rtVars, csVars, lcVars, scVars>>
nonAgentVars ==
  <<embedVars, e1Vars, indexVars, kbVars, rtVars, csVars, lcVars, scVars>>
nonRetrieverVars ==
  <<embedVars, e1Vars, indexVars, kbVars, pmVars, csVars, lcVars, scVars>>
nonSimilarityVars ==
  <<embedVars, e1Vars, indexVars, kbVars, pmVars, rtVars, lcVars, scVars>>
nonSchedulerVars ==
  <<embedVars, e1Vars, indexVars, kbVars, pmVars, rtVars, csVars, lcVars>>
nonProcessVars == <<embedVars, e1Vars, kbVars, pmVars, rtVars, csVars, scVars>>

vars ==
  <<embedVars, e1Vars, indexVars, kbVars, pmVars, rtVars, csVars, lcVars, scVars>>

\* ------------------------------------------------------------------------
\* The embedding provider (cohere.embed).  Its contract: one vector per
\* input text, in the same order.  The vector of a text is a deterministic,
\* non-zero function of the text.
\* ------------------------------------------------------------------------
CountOf(text, c) == Cardinality({k \in 1..Len(text) : text[k] = c})

ProviderEmbedding(text) ==
  [d \in 1..EMBEDDING_DIMENSIONS |->
     IF d = 1 THEN Len(text) ELSE CountOf(text, "a") + d - 2]

\* response.embeddings for a request carrying `batchTexts`
ProviderResponse(batchTexts) ==
  [b \in 1..Len(batchTexts) |-> ProviderEmbedding(batchTexts[b])]

\* What cohere.embed rejects with: the service cannot be reached or is
\* rate limited, or it refuses the input as malformed.
ProviderErrors ==
  {[name |-> "CohereTimeoutError", message |-> "request timed out", status |-> 0],
   [name |-> "CohereError", message |-> "too many requests", status |-> 429],
   [name |-> "CohereError", message |-> "invalid request: texts", status |-> 400]}

\* new Error(`${prefix}${error.message}`)
WrappedError(prefix, error) == [name |-> "Error", message |-> <<prefix, error.message>>]

NoError == [name |-> "", message |-> <<>>]
NoFailure == [cause |-> [name |-> "", message |-> "", status |-> 0], thrown |-> NoError]

\* ------------------------------------------------------------------------
\* createEmbeddings (src/src/index.ts:495-554)
\* ------------------------------------------------------------------------
\* texts.forEach((text, index) => { if (text && text.trim().length > 0) push })
ValidTexts(texts) ==
  SelectSeq([k \in 1..Len(texts) |-> [index |-> k - 1, text |-> texts[k]]],
            LAMBDA v : ~IsBlank(v.text))

\* Faulty variant: the slice runs one element into the next batch.
BatchAtOverlapping(validTexts, i) ==
  SubSeq(validTexts, i + 1, Min(i + MAX_BATCH_SIZE + 1, Len(validTexts)))

\* validTexts.slice(i, i + MAX_BATCH_SIZE)
BatchAt(validTexts, i) ==
  SubSeq(validTexts, i + 1, Min(i + MAX_BATCH_SIZE, Len(validTexts)))

BatchTexts(batch) == [b \in 1..Len(batch) |-> batch[b].text]

\* Faulty variant: results[batchIndex] = embedding, the position in the batch
\* taken for the position in the input.
ScatterResultsByBatchIndex(results, batch, embeddings) ==
  [k \in 1..Len(results) |->
     IF k <= Len(embeddings) THEN embeddings[k] ELSE results[k]]

\* response.embeddings.forEach((embedding, batchIndex) =>
\*    results[batch[batchIndex].index] = embedding)
ScatterResults(results, batch, embeddings) ==
  [k \in 1..Len(results) |->
     IF \E b \in 1..Len(embeddings) : batch[b].index = k - 1
     THEN embeddings[CHOOSE b \in 1..Len(embeddings) : batch[b].index = k - 1]
     ELSE results[k]]

\* for (i...) if (results[i] === null) results[i] = zeros
FillZeros(results) ==
  [k \in 1..Len(results) |-> IF results[k] = NULL THEN ZeroVector ELSE results[k]]

Request(batch) == [ev |-> "request", texts |-> BatchTexts(batch)]
Delay == [ev |-> "delay", texts |-> <<>>]
Failure == [ev |-> "failure", texts |-> <<>>]

\* Entry: lines 496-512.
CE_Call(texts) ==
  /\ ce_pc = "idle"
  /\ ce_texts' = texts
  /\ ce_trace' = <<>>
  /\ ce_i' = 0
  /\ ce_failure' = NoFailure
  /\ UNCHANGED nonEmbedVars
  /\ IF Len(texts) = 0
     THEN /\ ce_pc' = "returned"
          /\ ce_ret' = <<>>
          /\ ce_validTexts' = <<>>
          /\ ce_results' = <<>>
     ELSE /\ ce_validTexts' = ValidTexts(texts)
          /\ IF Len(ValidTexts(texts)) = 0
             THEN /\ ce_pc' = "returned"
                  /\ ce_ret' = [k \in 1..Len(texts) |-> ZeroVector]
                  /\ ce_results' = <<>>
             ELSE /\ ce_pc' = "loop"
                  /\ ce_ret' = NULL
                  /\ ce_results' = [k \in 1..Len(texts) |-> NULL]

\* Loop head with i < validTexts.length: the request of lines 516-525 goes out.
CE_Send ==
  /\ ce_pc = "loop"
  /\ ce_i < Len(ce_validTexts)
  /\ ce_trace' = Append(ce_trace, Request(BatchAt(ce_validTexts, ce_i)))
  /\ ce_pc' = "await"
  /\ UNCHANGED <<ce_failure, ce_texts, ce_validTexts, ce_results, ce_i, ce_ret, nonEmbedVars>>

\* Faulty variant: the delay follows every batch, the last one too.
CE_ResponseAlwaysDelays ==
  /\ ce_pc = "await"
  /\ LET batch == BatchAt(ce_validTexts, ce_i)
     IN ce_results' = ScatterResults(ce_results, batch, ProviderResponse(BatchTexts(batch)))
  /\ ce_pc' = "delay"
  /\ ce_i' = ce_i
  /\ UNCHANGED <<ce_failure, ce_texts, ce_validTexts, ce_ret, ce_trace, nonEmbedVars>>

\* The provider answered: lines 527-538.
CE_Response ==
  /\ ce_pc = "await"
  /\ LET batch == BatchAt(ce_validTexts, ce_i)
     IN ce_results' = ScatterResults(ce_results, batch, ProviderResponse(BatchTexts(batch)))
  /\ IF ce_i + MAX_BATCH_SIZE < Len(ce_validTexts)
     THEN /\ ce_pc' = "delay"
          /\ ce_i' = ce_i
     ELSE /\ ce_pc' = "loop"
          /\ ce_i' = ce_i + MAX_BATCH_SIZE
  /\ UNCHANGED <<ce_failure, ce_texts, ce_validTexts, ce_ret, ce_trace, nonEmbedVars>>

\* What cohere.embed may resolve with when it does not keep its contract:
\* a response without embeddings (NULL), or with embeddings for the first
\* texts of the request only.
ShortResponses(batchTexts) ==
  {[embeddings |-> NULL]}
    \cup {[embeddings |-> SubSeq(ProviderResponse(batchTexts), 1, n)] :
            n \in 0..(Len(batchTexts) - 1)}

\* The provider answered with `response`: lines 527-538.  Without
\* response.embeddings the condition of line 528 fails and nothing is
\* mapped; the forEach of lines 529-532 maps what there is.
CE_ShortResponse(response) ==
  /\ ce_pc = "await"
  /\ LET batch == BatchAt(ce_validTexts, ce_i)
     IN ce_results' = IF response.embeddings = NULL THEN ce_results
                      ELSE ScatterResults(ce_results, batch, response.embeddings)
  /\ IF ce_i + MAX_BATCH_SIZE < Len(ce_validTexts)
     THEN /\ ce_pc' = "delay"
          /\ ce_i' = ce_i
     ELSE /\ ce_pc' = "loop"
          /\ ce_i' = ce_i + MAX_BATCH_SIZE
  /\ UNCHANGED <<ce_failure, ce_texts, ce_validTexts, ce_ret, ce_trace, nonEmbedVars>>

\* Faulty variant: the catch block logs and the loop goes on.
CE_FailSwallowed ==
  /\ ce_pc = "await"
  /\ ce_trace' = Append(ce_trace, Failure)
  /\ ce_i' = ce_i + MAX_BATCH_SIZE
  /\ ce_pc' = "loop"
  /\ UNCHANGED <<ce_failure, ce_texts, ce_validTexts, ce_results, ce_ret, nonEmbedVars>>

\* The provider call rejected: the catch block of lines 539-542 throws
\* new Error(`Batch embedding failed: ${error.message}`).
CE_Fail ==
  /\ ce_pc = "await"
  /\ ce_pc' = "thrown"
  /\ ce_trace' = Append(ce_trace, Failure)
  /\ \E cause \in ProviderErrors :
       ce_failure' = [cause |-> cause,
                      thrown |-> WrappedError("Batch embedding failed: ", cause)]
  /\ UNCHANGED <<ce_texts, ce_validTexts, ce_results, ce_i, ce_ret, nonEmbedVars>>

\* setTimeout(resolve, RATE_LIMIT_DELAY_MS) elapsed: line 537, then i += MAX_BATCH_SIZE.
CE_DelayDone ==
  /\ ce_pc = "delay"
  /\ ce_trace' = Append(ce_trace, Delay)
  /\ ce_i' = ce_i + MAX_BATCH_SIZE
  /\ ce_pc' = "loop"
  /\ UNCHANGED <<ce_failure, ce_texts, ce_validTexts, ce_results, ce_ret, nonEmbedVars>>

\* Loop exit: lines 545-553.
CE_Return ==
  /\ ce_pc = "loop"
  /\ ce_i >= Len(ce_validTexts)
  /\ ce_results' = FillZeros(ce_results)
  /\ ce_ret' = FillZeros(ce_results)
  /\ ce_pc' = "returned"
  /\ UNCHANGED <<ce_failure, ce_texts, ce_validTexts, ce_i, ce_trace, nonEmbedVars>>

\* createEmbeddings run to completion with every provider call answered:
\* the value the promise resolves to.
RECURSIVE EmbedLoop(_, _, _)
EmbedLoop(validTexts, results, i) ==
  IF i >= Len(validTexts) THEN FillZeros(results)
  ELSE LET batch == BatchAt(validTexts, i)
       IN EmbedLoop(validTexts,
                    ScatterResults(results, batch, ProviderResponse(BatchTexts(batch))),
                    i + MAX_BATCH_SIZE)

createEmbeddings(texts) ==
  IF Len(texts) = 0 THEN <<>>
  ELSE IF Len(ValidTexts(texts)) = 0 THEN [k \in 1..Len(texts) |-> ZeroVector]
  ELSE EmbedLoop(ValidTexts(texts), [k \in 1..Len(texts) |-> NULL], 0)

\* ------------------------------------------------------------------------
\* createEmbedding (src/src/index.ts:471-490)
\* ------------------------------------------------------------------------
\* createEmbedding with the provider answering: the value the promise resolves to
createEmbedding(text) ==
  IF IsBlank(text) THEN ZeroVector ELSE ProviderResponse(<<text>>)[1]

\* Faulty variant: the text goes to the provider whatever it is.
E1_CallUnguarded(text) ==
  /\ e1_pc = "idle"
  /\ e1_text' = text
  /\ e1_requests' = <<text>>
  /\ e1_pc' = "await"
  /\ UNCHANGED <<e1_ret, e1_failure, nonSingleVars>>

\* Entry: lines 472-482.
E1_Call(text) ==
  /\ e1_pc = "idle"
  /\ e1_text' = text
  /\ IF IsBlank(text)
     THEN /\ e1_pc' = "returned"
          /\ e1_ret' = ZeroVector
          /\ UNCHANGED e1_requests
     ELSE /\ e1_pc' = "await"
          /\ e1_requests' = <<text>>
          /\ UNCHANGED e1_ret
  /\ UNCHANGED <<e1_failure, nonSingleVars>>

\* The provider answered: line 485.
E1_Response ==
  /\ e1_pc = "await"
  /\ e1_ret' = ProviderResponse(<<e1_text>>)[1]
  /\ e1_pc' = "returned"
  /\ UNCHANGED <<e1_text, e1_requests, e1_failure, nonSingleVars>>

\* The provider call rejected: the catch block of lines 486-489 throws
\* new Error(`Embedding failed: ${error.message}`).
E1_Fail ==
  /\ e1_pc = "await"
  /\ \E cause \in ProviderErrors :
       e1_failure' = [cause |-> cause, thrown |-> WrappedError("Embedding failed: ", cause)]
  /\ e1_pc' = "thrown"
  /\ UNCHANGED <<e1_text, e1_requests, e1_ret, nonSingleVars>>

\* ------------------------------------------------------------------------
\* The source of truth and the index
\* ------------------------------------------------------------------------
Scopes == {"A", "B"}
ScopeOrder == <<"A", "B">>

TextRedis == <<"r", "e", "d", "i", "s", " ", "c", "a", "c", "h", "e">>
TextDeploy == <<UserMention, " ", " ", "d", "e", "p", "l", "o", "y">>
TextShort == <<"o", "k", " ", EmojiCode>>
SourceTexts == {TextRedis, TextDeploy, TextShort}
\* The messages written in a scope: every kind in A, one long one in B.
ScopeTexts(s) == IF s = "A" THEN SourceTexts ELSE {TextRedis}

\* The chat platform gets a new message.
SourceAdd(s, text) ==
  /\ clock < MaxTs
  /\ clock' = clock + 1
  /\ source' = source \cup {[id |-> clock + 1, scope |-> s, ts |-> clock + 1, text |-> text]}
  /\ UNCHANGED <<nonIndexVars, ragEnabled, proc, exitKind, shutPc, dbOpen, timerOn, restarts,
                 store, checkpoint, busy, inFlight, scopeState, cycPc, todo, cur,
                 fetched, vectors, cpStart, storeStart, cycFailed, cycDone, cycFetched>>

\* A message is edited: the source re-supplies its id with new content and a
\* timestamp after every checkpoint.
SourceEdit(r, text) ==
  /\ clock < MaxTs
  /\ r \in source
  /\ text # r.text
  /\ clock' = clock + 1
  /\ source' = (source \ {r}) \cup {[r EXCEPT !.ts = clock + 1, !.text = text]}
  /\ UNCHANGED <<nonIndexVars, ragEnabled, proc, exitKind, shutPc, dbOpen, timerOn, restarts,
                 store, checkpoint, busy, inFlight, scopeState, cycPc, todo, cur,
                 fetched, vectors, cpStart, storeStart, cycFailed, cycDone, cycFetched>>

\* fetchRecordsSince(scope, timestamp): the records after the checkpoint, oldest first
RECURSIVE SortByTs(_)
SortByTs(recs) ==
  IF recs = {} THEN <<>>
  ELSE LET first == CHOOSE r \in recs : \A q \in recs : r.ts <= q.ts
       IN <<first>> \o SortByTs(recs \ {first})

fetchRecordsSince(s, t) == SortByTs({r \in source : r.scope = s /\ r.ts > t})

MaxTsOf(recs) == CHOOSE t \in {recs[k].ts : k \in 1..Len(recs)} :
                   \A k \in 1..Len(recs) : recs[k].ts <= t

\* Faulty variant: insert without removing the earlier version.
upsertAppends(st, rec) == st \cup {rec}

\* upsert(record): insert or overwrite by id
upsert(st, rec) == {x \in st : x.id # rec.id} \cup {rec}

RECURSIVE upsertBatch(_, _)
upsertBatch(st, recs) ==
  IF recs = <<>> THEN st ELSE upsertBatch(upsert(st, Head(recs)), Tail(recs))

\* Faulty variant: the last fetched record is left out (off by one).
BuildRecordsDropsLast(recs, vecs) ==
  LET all == [k \in 1..(Len(recs) - 1) |->
                [id |-> recs[k].id, text |-> preprocessText(recs[k].text),
                 vector |-> vecs[k], scope |-> recs[k].scope, ts |-> recs[k].ts]]
  IN SelectSeq(all, LAMBDA x : x.text # <<>>)

\* The Records the indexer builds from what it fetched and embedded: text
\* that normalizes to nothing is skipped.
BuildRecords(recs, vecs) ==
  LET all == [k \in 1..Len(recs) |->
                [id |-> recs[k].id, text |-> preprocessText(recs[k].text),
                 vector |-> vecs[k], scope |-> recs[k].scope, ts |-> recs[k].ts]]
  IN SelectSeq(all, LAMBDA x : x.text # <<>>)

NormalizedTexts(recs) == [k \in 1..Len(recs) |-> preprocessText(recs[k].text)]

\* ------------------------------------------------------------------------
\* The indexer: one sync cycle = Tick, then per scope BeginScope, Embed,
\* Upsert, Advance, then EndCycle.
\* ------------------------------------------------------------------------
Recovered(st) == [s \in Scopes |-> IF st[s] = "FAILED" THEN "IDLE" ELSE st[s]]

\* Faulty variant: the tick does not look at the busy flag.
TickStartUnguarded ==
  /\ proc = "running" /\ timerOn
  /\ inFlight < 2
  /\ busy' = TRUE
  /\ inFlight' = inFlight + 1
  /\ scopeState' = Recovered(scopeState)
  /\ cycPc' = "next"
  /\ todo' = ScopeOrder
  /\ cpStart' = checkpoint
  /\ storeStart' = {x.id : x \in store}
  /\ cycFailed' = {}
  /\ cycDone' = {}
  /\ cycFetched' = [s \in Scopes |-> {}]
  /\ UNCHANGED <<nonIndexVars, ragEnabled, proc, exitKind, shutPc, dbOpen, timerOn, restarts,
                 source, clock, store, checkpoint, cur, fetched, vectors>>

\* The interval timer fires and no cycle is running: a cycle starts.
TickStart ==
  /\ proc = "running" /\ timerOn
  /\ ~busy
  /\ busy' = TRUE
  /\ inFlight' = inFlight + 1
  /\ scopeState' = Recovered(scopeState)
  /\ cycPc' = "next"
  /\ todo' = ScopeOrder
  /\ cpStart' = checkpoint
  /\ storeStart' = {x.id : x \in store}
  /\ cycFailed' = {}
  /\ cycDone' = {}
  /\ cycFetched' = [s \in Scopes |-> {}]
  /\ UNCHANGED <<nonIndexVars, ragEnabled, proc, exitKind, shutPc, dbOpen, timerOn, restarts,
                 source, clock, store, checkpoint, cur, fetched, vectors>>

\* The interval timer fires while a cycle is running: nothing happens.
TickBusy ==
  /\ proc = "running" /\ timerOn
  /\ busy
  /\ UNCHANGED vars

Tick == TickStart \/ TickBusy

\* The cycle turns to its next scope and fetches what is new there.
BeginScope ==
  /\ proc = "running" /\ cycPc = "next" /\ todo # <<>>
  /\ LET s == Head(todo) IN
       /\ cur' = s
       /\ scopeState' = [scopeState EXCEPT ![s] = "SYNCING"]
       /\ fetched' = fetchRecordsSince(s, checkpoint[s])
       /\ cycFetched' = [cycFetched EXCEPT ![s] = {r \in source : r.scope = s /\ r.ts > checkpoint[s]}]
  /\ todo' = Tail(todo)
  /\ cycPc' = "embed"
  /\ UNCHANGED <<nonIndexVars, ragEnabled, proc, exitKind, shutPc, dbOpen, timerOn, restarts,
                 source, clock, store, checkpoint, busy, inFlight, vectors,
                 cpStart, storeStart, cycFailed, cycDone>>

\* Faulty variant: the checkpoint is advanced before the store write
\* (advance-then-write).
EmbedDoneAdvancesCheckpoint ==
  /\ proc = "running" /\ cycPc = "embed"
  /\ vectors' = createEmbeddings(NormalizedTexts(fetched))
  /\ checkpoint' = IF fetched = <<>> THEN checkpoint
                   ELSE [checkpoint EXCEPT ![cur] = MaxTsOf(fetched)]
  /\ cycPc' = "upsert"
  /\ UNCHANGED <<nonIndexVars, ragEnabled, proc, exitKind, shutPc, dbOpen, timerOn, restarts,
                 source, clock, store, busy, inFlight, scopeState, todo, cur,
                 fetched, cpStart, storeStart, cycFailed, cycDone, cycFetched>>

\* Batch embedding of the normalized texts returned.
EmbedDone ==
  /\ proc = "running" /\ cycPc = "embed"
  /\ vectors' = createEmbeddings(NormalizedTexts(fetched))
  /\ cycPc' = "upsert"
  /\ UNCHANGED <<nonIndexVars, ragEnabled, proc, exitKind, shutPc, dbOpen, timerOn, restarts,
                 source, clock, store, checkpoint, busy, inFlight, scopeState, todo, cur,
                 fetched, cpStart, storeStart, cycFailed, cycDone, cycFetched>>

\* The scope failed (embedding or store write): it is marked FAILED, its
\* checkpoint stays, and the cycle goes on with the next scope.
ScopeFailed ==
  /\ scopeState' = [scopeState EXCEPT ![cur] = "FAILED"]
  /\ cycFailed' = cycFailed \cup {cur}
  /\ cycPc' = "next"
  /\ fetched' = <<>>
  /\ vectors' = <<>>
  /\ UNCHANGED <<nonIndexVars, ragEnabled, proc, exitKind, shutPc, dbOpen, timerOn, restarts,
                 source, clock, store, checkpoint, busy, inFlight, todo, cur,
                 cpStart, storeStart, cycDone, cycFetched>>

\* Faulty variant: a failed embedding ends the cycle for the scopes left.
EmbedFailAbortsCycle ==
  /\ proc = "running" /\ cycPc = "embed"
  /\ ValidTexts(NormalizedTexts(fetched)) # <<>>
  /\ scopeState' = [scopeState EXCEPT ![cur] = "FAILED"]
  /\ cycFailed' = cycFailed \cup {cur}
  /\ cycPc' = "next"
  /\ todo' = <<>>
  /\ fetched' = <<>>
  /\ vectors' = <<>>
  /\ UNCHANGED <<nonIndexVars, ragEnabled, proc, exitKind, shutPc, dbOpen, timerOn, restarts,
                 source, clock, store, checkpoint, busy, inFlight, cur,
                 cpStart, storeStart, cycDone, cycFetched>>

\* Faulty variant: the error escapes the cycle, which stops without
\* releasing the busy flag.
EmbedFailEscapes ==
  /\ proc = "running" /\ cycPc = "embed"
  /\ ValidTexts(NormalizedTexts(fetched)) # <<>>
  /\ scopeState' = [scopeState EXCEPT ![cur] = "FAILED"]
  /\ cycPc' = "idle"
  /\ todo' = <<>>
  /\ fetched' = <<>>
  /\ vectors' = <<>>
  /\ UNCHANGED <<nonIndexVars, ragEnabled, proc, exitKind, shutPc, dbOpen, timerOn, restarts,
                 source, clock, store, checkpoint, busy, inFlight, cur,
                 cpStart, storeStart, cycFailed, cycDone, cycFetched>>

\* Batch embedding threw (EmbeddingProviderError); it calls the provider only
\* when some text is not empty.
EmbedFail ==
  /\ proc = "running" /\ cycPc = "embed"
  /\ ValidTexts(NormalizedTexts(fetched)) # <<>>
  /\ ScopeFailed

\* The store wrote the batch.
UpsertDone ==
  /\ proc = "running" /\ cycPc = "upsert"
  /\ store' = upsertBatch(store, BuildRecords(fetched, vectors))
  /\ cycPc' = "advance"
  /\ UNCHANGED <<nonIndexVars, ragEnabled, proc, exitKind, shutPc, dbOpen, timerOn, restarts,
                 source, clock, checkpoint, busy, inFlight, scopeState, todo, cur,
                 fetched, vectors, cpStart, storeStart, cycFailed, cycDone, cycFetched>>

\* The store write threw (StoreUnavailable); there was something to write.
UpsertFail ==
  /\ proc = "running" /\ cycPc = "upsert"
  /\ BuildRecords(fetched, vectors) # <<>>
  /\ ScopeFailed

\* After the write: the checkpoint moves to the newest timestamp processed.
Advance ==
  /\ proc = "running" /\ cycPc = "advance"
  /\ checkpoint' = IF fetched = <<>> THEN checkpoint
                   ELSE [checkpoint EXCEPT ![cur] = MaxTsOf(fetched)]
  /\ scopeState' = [scopeState EXCEPT ![cur] = "IDLE"]
  /\ cycPc' = "next"
  /\ cycDone' = cycDone \cup {cur}
  /\ fetched' = <<>>
  /\ vectors' = <<>>
  /\ UNCHANGED <<nonIndexVars, ragEnabled, proc, exitKind, shutPc, dbOpen, timerOn, restarts,
                 source, clock, store, busy, inFlight, todo, cur,
                 cpStart, storeStart, cycFailed, cycFetched>>

\* Every scope was visited: the cycle ends and releases the flag.
EndCycle ==
  /\ proc = "running" /\ cycPc = "next" /\ todo = <<>>
  /\ busy' = FALSE
  /\ inFlight' = inFlight - 1
  /\ cycPc' = "idle"
  /\ cur' = "A"
  /\ cpStart' = [s \in Scopes |-> 0]
  /\ storeStart' = {}
  /\ cycFailed' = {}
  /\ cycDone' = {}
  /\ cycFetched' = [s \in Scopes |-> {}]
  /\ UNCHANGED <<nonIndexVars, ragEnabled, proc, exitKind, shutPc, dbOpen, timerOn, restarts,
                 source, clock, store, checkpoint, scopeState, todo, fetched, vectors>>

\* Explicit maintenance: a scope's checkpoint is reset, between cycles.
ResetCheckpoint(s) ==
  /\ proc = "running" /\ cycPc = "idle"
  /\ checkpoint[s] > 0
  /\ checkpoint' = [checkpoint EXCEPT ![s] = 0]
  /\ UNCHANGED <<nonIndexVars, ragEnabled, proc, exitKind, shutPc, dbOpen, timerOn, restarts,
                 source, clock, store, busy, inFlight, scopeState, cycPc, todo, cur,
                 fetched, vectors, cpStart, storeStart, cycFailed, cycDone, cycFetched>>

\* ------------------------------------------------------------------------
\* The process: main (src/src/index.ts:43-120), shutdown (126-158), the
\* uncaughtException handler (165-168)
\* ------------------------------------------------------------------------
\* main() ran through: database opened, and with RAG enabled the vector store
\* initialized and the indexer's timer started.  Nothing of the previous
\* process's memory survives; the store and the checkpoints do.
\* The memory of a process that has stopped: only where its sync cycle stood
\* when it stopped is kept, for the record.
MemoryGone ==
  /\ busy' = FALSE
  /\ inFlight' = 0
  /\ scopeState' = [s \in Scopes |-> "IDLE"]
  /\ todo' = <<>>
  /\ cur' = "A"
  /\ fetched' = <<>>
  /\ vectors' = <<>>
  /\ cpStart' = [s \in Scopes |-> 0]
  /\ storeStart' = {}
  /\ cycFailed' = {}
  /\ cycDone' = {}
  /\ cycFetched' = [s \in Scopes |-> {}]

\* Faulty variant: the checkpoints are not read back from durable storage.
MainForgetsCheckpoints ==
  /\ proc = "stopped"
  /\ restarts < MaxRestarts
  /\ restarts' = restarts + 1
  /\ proc' = "running"
  /\ exitKind' = "none"
  /\ shutPc' = "none"
  /\ dbOpen' = TRUE
  /\ timerOn' = ragEnabled
  /\ cycPc' = "idle"
  /\ MemoryGone
  /\ checkpoint' = [s \in Scopes |-> 0]
  /\ UNCHANGED <<nonIndexVars, ragEnabled, source, clock, store>>

Main ==
  /\ proc = "stopped"
  /\ restarts < MaxRestarts
  /\ restarts' = restarts + 1
  /\ proc' = "running"
  /\ exitKind' = "none"
  /\ shutPc' = "none"
  /\ dbOpen' = TRUE
  /\ timerOn' = ragEnabled
  /\ cycPc' = "idle"
  /\ MemoryGone
  /\ UNCHANGED <<nonIndexVars, ragEnabled, source, clock, store, checkpoint>>

\* SIGINT / SIGTERM: shutdown() starts and awaits stopSlackApp().  One signal
\* is followed here; LC_Signal follows every signal.
Signal ==
  /\ proc = "running" /\ shutPc = "none"
  /\ shutPc' = "stopSlack"
  /\ UNCHANGED <<nonIndexVars, ragEnabled, proc, exitKind, dbOpen, timerOn, restarts,
                 source, clock, store, checkpoint, busy, inFlight, scopeState, cycPc,
                 todo, cur, fetched, vectors, cpStart, storeStart, cycFailed, cycDone, cycFetched>>

\* stopSlackApp() resolved: shutdown() awaits shutdownMCP().
ShutdownSlackStopped ==
  /\ proc = "running" /\ shutPc = "stopSlack"
  /\ shutPc' = "stopMCP"
  /\ UNCHANGED <<nonIndexVars, ragEnabled, proc, exitKind, dbOpen, timerOn, restarts,
                 source, clock, store, checkpoint, busy, inFlight, scopeState, cycPc,
                 todo, cur, fetched, vectors, cpStart, storeStart, cycFailed, cycDone, cycFetched>>

\* shutdownMCP() resolved.  Lines 138-153 run in one turn of the event loop:
\* stopIndexer() (not awaited), taskScheduler.stop(), closeDatabase(),
\* process.exit(0).  What the indexer was doing stays where it was.
ShutdownFinish ==
  /\ proc = "running" /\ shutPc = "stopMCP"
  /\ timerOn' = FALSE
  /\ dbOpen' = FALSE
  /\ proc' = "stopped"
  /\ exitKind' = "shutdown"
  /\ shutPc' = "none"
  /\ MemoryGone
  /\ UNCHANGED <<nonIndexVars, ragEnabled, restarts, source, clock, store, checkpoint, cycPc>>

\* stopSlackApp() or shutdownMCP() rejected: the catch block exits with 1.
ShutdownError ==
  /\ proc = "running" /\ shutPc \in {"stopSlack", "stopMCP"}
  /\ proc' = "stopped"
  /\ exitKind' = "error"
  /\ shutPc' = "none"
  /\ timerOn' = FALSE
  /\ dbOpen' = FALSE
  /\ MemoryGone
  /\ UNCHANGED <<nonIndexVars, ragEnabled, restarts, source, clock, store, checkpoint, cycPc>>

\* The process dies (uncaught exception, kill): nothing is stopped in order.
Crash ==
  /\ proc = "running"
  /\ proc' = "stopped"
  /\ exitKind' = "crash"
  /\ shutPc' = "none"
  /\ timerOn' = FALSE
  /\ dbOpen' = FALSE
  /\ MemoryGone
  /\ UNCHANGED <<nonIndexVars, ragEnabled, restarts, source, clock, store, checkpoint, cycPc>>

\* ------------------------------------------------------------------------
\* cosineSimilarity (src/src/index.ts:559-581).  Components are integers
\* and the accumulators are doubles: a product or a sum beyond MAX_VALUE is
\* an infinity, 0 * Infinity and Infinity - Infinity are NaN.  A returned
\* number is kept as the numerator `num` and the square `den2` of the
\* denominator of dotProduct / (sqrt(normA) * sqrt(normB)); den2 = 0 is the
\* outcome NaN or an infinity.
\* ------------------------------------------------------------------------
MaxVecLen == 3                     \* longest vector handed to cosineSimilarity
MAX_VALUE == 999999                \* Number.MAX_VALUE, scaled down
\* the values a component takes; 1000 is finite and its square overflows
Components == {-1, 0, 1, 1000}

Infinity == MAX_VALUE + 1
NaN == MAX_VALUE + 2

Thrown == [thrown |-> TRUE, num |-> 0, den2 |-> 1]
Zero == [thrown |-> FALSE, num |-> 0, den2 |-> 1]
NotANumber == [thrown |-> FALSE, num |-> 0, den2 |-> 0]

\* the double an exact result x is stored as
Overflow(x) ==
  IF x > MAX_VALUE THEN Infinity ELSE IF x < 0 - MAX_VALUE THEN 0 - Infinity ELSE x

\* x * y on doubles
Times(x, y) ==
  IF x = NaN \/ y = NaN THEN NaN
  ELSE IF x \in {Infinity, 0 - Infinity} \/ y \in {Infinity, 0 - Infinity}
       THEN IF x = 0 \/ y = 0 THEN NaN
            ELSE IF (x > 0) = (y > 0) THEN Infinity ELSE 0 - Infinity
       ELSE Overflow(x * y)

\* x + y on doubles
Plus(x, y) ==
  IF x = NaN \/ y = NaN THEN NaN
  ELSE IF x \in {Infinity, 0 - Infinity}
       THEN IF y = 0 - x THEN NaN ELSE x
       ELSE IF y \in {Infinity, 0 - Infinity} THEN y ELSE Overflow(x + y)

\* dotProduct / magnitude
Quotient(num, den2) ==
  IF num = 0 /\ den2 # 0 THEN Zero ELSE [thrown |-> FALSE, num |-> num, den2 |-> den2]

\* the loop of lines 568-572: sum of a[i] * b[i] over the first n components
RECURSIVE Accumulate(_, _, _)
Accumulate(a, b, n) ==
  IF n = 0 THEN 0 ELSE Plus(Accumulate(a, b, n - 1), Times(a[n], b[n]))

cosineSimilarity(a, b) ==
  IF Len(a) # Len(b) THEN Thrown
  ELSE LET dotProduct == Accumulate(a, b, Len(a))
           normA == Accumulate(a, a, Len(a))
           normB == Accumulate(b, b, Len(a))
       IN IF normA # Infinity /\ normB # Infinity
          THEN \* magnitude is 0 exactly when a norm is 0
               IF normA = 0 \/ normB = 0 THEN Zero
               ELSE Quotient(dotProduct, normA * normB)
          ELSE \* a norm overflowed: magnitude is Infinity, or NaN when the
               \* other norm is 0, and NaN === 0 is false
               IF normA = 0 \/ normB = 0 THEN NotANumber
               ELSE IF dotProduct \in {Infinity, 0 - Infinity, NaN} THEN NotANumber
               ELSE Zero

\* Math.sqrt of a perfect square is exact
IsSquare(n) == \E k \in 0..n : k * k = n

\* Where the double returned may lie against the exact quotient: on it (0)
\* when no step rounds, else on it or on a neighbouring double (-1, 1).
Roundings(a, b) ==
  IF Len(a) # Len(b) THEN {0}
  ELSE LET normA == Accumulate(a, a, Len(a))
           normB == Accumulate(b, b, Len(a))
       IN IF normA = Infinity \/ normB = Infinity \/ Accumulate(a, b, Len(a)) = 0
             \/ (IsSquare(normA) /\ IsSquare(normB))
          THEN {0}
          ELSE {-1, 0, 1}

CS_Call(a, b) ==
  /\ cs_pc = "idle"
  /\ cs_a' = a /\ cs_b' = b
  /\ cs_ret' = cosineSimilarity(a, b)
  /\ cs_pc' = IF Len(a) # Len(b) THEN "thrown" ELSE "returned"
  /\ cs_round' \in Roundings(a, b)
  /\ UNCHANGED nonSimilarityVars

\* r is the number 1: a positive numerator equal to the denominator
IsOne(r) == ~r.thrown /\ r.num > 0 /\ r.num * r.num = r.den2

\* Scores are compared through their signed squares.
SignedSquare(r) == IF r.num < 0 THEN 0 - r.num * r.num ELSE r.num * r.num

\* r >= pct / 100, for a floor pct in 0..100
ScoreAtLeast(r, pct) ==
  /\ r.den2 # 0
  /\ r.num >= 0
  /\ r.num * r.num * 10000 >= pct * pct * r.den2

\* r1 > r2
ScoreAbove(r1, r2) == SignedSquare(r1) * r2.den2 > SignedSquare(r2) * r1.den2

\* ------------------------------------------------------------------------
\* The vector store's search and the retriever.  A scope filter is the
\* channel name as text; the empty text stands for no filter (channelName
\* undefined or '').  minScore is in hundredths.
\* ------------------------------------------------------------------------
NoFilter == <<>>

MatchesScope(x, scopeFilter) == scopeFilter = NoFilter \/ scopeFilter = <<x.scope>>

ScoredResult(x, queryVector) ==
  [id |-> x.id, scope |-> x.scope, text |-> x.text,
   score |-> cosineSimilarity(queryVector, x.vector)]

\* Faulty variant: equal scores are ordered by id descending.
RanksBeforeLargerIdFirst(x, y) ==
  \/ ScoreAbove(x.score, y.score)
  \/ ~ScoreAbove(y.score, x.score) /\ x.id > y.id

\* x ranks before y: higher score first, equal scores by id ascending
RanksBefore(x, y) ==
  \/ ScoreAbove(x.score, y.score)
  \/ ~ScoreAbove(y.score, x.score) /\ x.id < y.id

RECURSIVE Ranked(_)
Ranked(hits) ==
  IF hits = {} THEN <<>>
  ELSE LET best == CHOOSE x \in hits : \A y \in hits \ {x} : RanksBefore(x, y)
       IN <<best>> \o Ranked(hits \ {best})

Take(s, n) == SubSeq(s, 1, Min(n, Len(s)))

\* Faulty variant: the floor is not applied.
searchWithoutFloor(st, queryVector, options) ==
  Take(Ranked({ScoredResult(x, queryVector) :
                 x \in {y \in st : MatchesScope(y, options.scopeFilter)}}),
       options.limit)

\* Faulty variant: the best `limit` of all records are taken, and those
\* outside the scope dropped afterwards.
searchFiltersAfterCut(st, queryVector, options) ==
  LET hits == {r \in {ScoredResult(x, queryVector) : x \in st} :
                 ScoreAtLeast(r.score, options.minScore)}
  IN SelectSeq(Take(Ranked(hits), options.limit),
               LAMBDA r : MatchesScope(r, options.scopeFilter))

\* search(queryVector, {limit, scopeFilter, minScore}): filter, floor, rank, cut
search(st, queryVector, options) ==
  LET inScope == {x \in st : MatchesScope(x, options.scopeFilter)}
      hits == {r \in {ScoredResult(x, queryVector) : x \in inScope} :
                 ScoreAtLeast(r.score, options.minScore)}
  IN Take(Ranked(hits), options.limit)

Reverse(s) == [k \in 1..Len(s) |-> s[Len(s) + 1 - k]]

\* the optional re-ranking: the candidates in the order of a secondary judgment
RerankOrders == {"keep", "reverse"}
Rerank(candidates, order) == IF order = "reverse" THEN Reverse(candidates) ELSE candidates

\* createEmbedding applied to the query, the provider answering
QueryVector(queryText) == createEmbedding(queryText)

\* retrieve(queryText, {limit, channelName, minScore}) with every call answered
retrieve(st, queryText, options, order) ==
  LET candidates == search(st, QueryVector(queryText),
                           [limit |-> 2 * options.limit,
                            scopeFilter |-> options.channelName,
                            minScore |-> options.minScore])
  IN [results |-> Take(Rerank(candidates, order), options.limit), query |-> queryText]

\* What the indexer may have stored by the time of a query.
CorpusText == <<"r", "e", "d", "i", "s", " ", "c", "a", "c", "h", "e">>
CorpusRecords ==
  {[id |-> 1, text |-> CorpusText, vector |-> <<1, 0>>, scope |-> "A", ts |-> 1],
   [id |-> 2, text |-> CorpusText, vector |-> <<1, 4>>, scope |-> "A", ts |-> 2],
   [id |-> 3, text |-> CorpusText, vector |-> <<1, 1>>, scope |-> "B", ts |-> 3],
   [id |-> 4, text |-> CorpusText, vector |-> <<0, 1>>, scope |-> "B", ts |-> 4]}

\* ------------------------------------------------------------------------
\* executeTool, case 'search_knowledge_base' (src/src/agents/agent.ts:353-410)
\* ------------------------------------------------------------------------
DefaultLimit == 10        \* (args.limit as number) || 10
ToolMinScore == 30        \* minScore: 0.3

\* a channel id as findChannel takes it: starts with 'C', longer than 8
ChannelIdText == <<"C", "0", "1", "2", "3", "4", "5", "6", "7">>

\* lines 358-362, each replacement on the token it matches
CleanQueryToken(tok) ==
  CASE tok = ChannelMentionNamed -> <<"#", "d", "e", "v">>
    [] tok = ChannelMention      -> <<>>
    [] tok = UserMention         -> <<>>
    [] tok = AngleLink           -> <<>>
    [] OTHER                     -> <<tok>>

RECURSIVE CleanQueryTokens(_)
CleanQueryTokens(text) ==
  IF text = <<>> THEN <<>> ELSE CleanQueryToken(Head(text)) \o CleanQueryTokens(Tail(text))

CleanQuery(text) == Trim(CleanQueryTokens(text))

\* lines 373-377
CleanChannelToken(tok) ==
  CASE tok = ChannelMentionNamed -> <<"d", "e", "v">>
    [] tok = ChannelMention      -> <<>>
    [] OTHER                     -> <<tok>>

RECURSIVE CleanChannelTokens(_)
CleanChannelTokens(text) ==
  IF text = <<>> THEN <<>> ELSE CleanChannelToken(Head(text)) \o CleanChannelTokens(Tail(text))

StripHash(text) == IF text # <<>> /\ Head(text) = "#" THEN Tail(text) ELSE text

\* if (channelNameFilter) { channelNameFilter = ...replace(...).trim() }
CleanChannelName(name) ==
  IF name = <<>> THEN name ELSE Trim(StripHash(CleanChannelTokens(name)))

\* channelNameFilter && channelNameFilter.startsWith('C') && channelNameFilter.length > 8
NeedsChannelLookup(name) == name # <<>> /\ Head(name) = "C" /\ Len(name) > 8

ToolLimit(args) == IF args.limit = 0 THEN DefaultLimit ELSE args.limit

RetrieveCall(query, limit, channelName) ==
  [query |-> query, limit |-> limit, channelName |-> channelName, minScore |-> ToolMinScore]

NoRetrieval == [done |-> FALSE, results |-> <<>>]
Retrieved(results) == [done |-> TRUE, results |-> results]

\* The string the tool returns, by its parts.
Payload(kind, channel, results) ==
  [kind |-> kind, channel |-> channel, count |-> Len(results), results |-> results]
NoPayload == Payload("none-yet", <<>>, <<>>)

\* line 379: the first retrieve goes out
KB_StartRetrieve(query, filter, limit) ==
  /\ kb_query' = query
  /\ kb_filter' = filter
  /\ kb_calls' = <<RetrieveCall(query, limit, filter)>>
  /\ kb_pc' = "retrieve"

\* Entry: lines 354-378.
KB_Call(args) ==
  /\ kb_pc = "idle"
  /\ kb_args' = args
  /\ IF NeedsChannelLookup(args.channel_name)
     THEN /\ kb_pc' = "findChannel"
          /\ kb_query' = CleanQuery(args.query)
          /\ UNCHANGED <<kb_filter, kb_calls>>
     ELSE KB_StartRetrieve(CleanQuery(args.query), CleanChannelName(args.channel_name),
                           ToolLimit(args))
  /\ UNCHANGED <<kb_first, kb_broader, kb_out, nonToolVars>>

\* findChannel answered: lines 366-378.  `found` is the channel's name, or
\* the empty text when there is no such channel.
KB_ChannelLookedUp(found) ==
  /\ kb_pc = "findChannel"
  /\ KB_StartRetrieve(kb_query,
                      CleanChannelName(IF found # <<>> THEN found ELSE kb_args.channel_name),
                      ToolLimit(kb_args))
  /\ UNCHANGED <<kb_args, kb_first, kb_broader, kb_out, nonToolVars>>

\* An awaited call rejected: the catch of lines 587-590.
KB_Failed ==
  /\ kb_pc \in {"findChannel", "retrieve", "broader"}
  /\ kb_out' = Payload("error", <<>>, <<>>)
  /\ kb_pc' = "returned"
  /\ UNCHANGED <<kb_args, kb_query, kb_filter, kb_calls, kb_first, kb_broader, nonToolVars>>

\* Faulty variant: an empty first search is always followed by a second one.
KB_RetrievedAlwaysBroadens(order) ==
  /\ kb_pc = "retrieve"
  /\ LET results == retrieve(store, kb_query, kb_calls[1], order).results
     IN /\ kb_first' = Retrieved(results)
        /\ IF Len(results) = 0
           THEN /\ kb_calls' = Append(kb_calls,
                                      RetrieveCall(kb_query, kb_calls[1].limit, NoFilter))
                /\ kb_pc' = "broader"
                /\ UNCHANGED kb_out
           ELSE /\ kb_out' = Payload("found", <<>>, results)
                /\ kb_pc' = "returned"
                /\ UNCHANGED kb_calls
  /\ UNCHANGED <<kb_args, kb_query, kb_filter, kb_broader, nonToolVars>>

\* The first retrieve answered: lines 385-409.
KB_Retrieved(order) ==
  /\ kb_pc = "retrieve"
  /\ LET results == retrieve(store, kb_query, kb_calls[1], order).results
     IN /\ kb_first' = Retrieved(results)
        /\ IF Len(results) = 0
           THEN IF kb_filter # <<>>
                THEN /\ kb_calls' = Append(kb_calls,
                                           RetrieveCall(kb_query, kb_calls[1].limit, NoFilter))
                     /\ kb_pc' = "broader"
                     /\ UNCHANGED kb_out
                ELSE /\ kb_out' = Payload("no_results", kb_filter, <<>>)
                     /\ kb_pc' = "returned"
                     /\ UNCHANGED kb_calls
           ELSE /\ kb_out' = Payload("found", <<>>, results)
                /\ kb_pc' = "returned"
                /\ UNCHANGED kb_calls
  /\ UNCHANGED <<kb_args, kb_query, kb_filter, kb_broader, nonToolVars>>

\* The second, unfiltered retrieve answered: lines 392-402.
KB_BroaderRetrieved(order) ==
  /\ kb_pc = "broader"
  /\ LET results == retrieve(store, kb_query, kb_calls[2], order).results
     IN /\ kb_broader' = Retrieved(results)
        /\ kb_out' = IF Len(results) > 0
                     THEN Payload("other_channels", kb_filter, results)
                     ELSE Payload("no_results", kb_filter, <<>>)
  /\ kb_pc' = "returned"
  /\ UNCHANGED <<kb_args, kb_query, kb_filter, kb_calls, kb_first, nonToolVars>>

\* The indexer, running beside the queries, has upserted a record.
IndexerWrote(rec) ==
  /\ store' = upsert(store, rec)
  /\ UNCHANGED <<nonIndexVars, ragEnabled, proc, exitKind, shutPc, dbOpen, timerOn, restarts,
                 source, clock, checkpoint, busy, inFlight, scopeState, cycPc, todo, cur,
                 fetched, vectors, cpStart, storeStart, cycFailed, cycDone, cycFetched>>

\* ------------------------------------------------------------------------
\* processMessage (src/src/agents/agent.ts:596-776).  shouldUseRAG and
\* parseQueryFilters are the query router: a message asks for retrieval when
\* it holds a retrospective phrase, and names a channel by a '#name' token.
\* ------------------------------------------------------------------------
MaxToolRounds == 1        \* tool-use rounds the model asks for in one request
RagMaxResults == 10       \* config.rag.maxResults
RagMinSimilarity == 50    \* config.rag.minSimilarity (0.5)

RetrospectiveCue == "what did we decide"
ChannelRefA == "#A"

shouldUseRAG(text) == \E k \in 1..Len(text) : text[k] = RetrospectiveCue

parseQueryFilters(text) ==
  [channelName |-> IF \E k \in 1..Len(text) : text[k] = ChannelRefA
                   THEN <<"A">> ELSE NoFilter]

NoRag == [ragContext |-> <<>>, ragUsed |-> FALSE, sourcesCount |-> 0]

\* what anthropicClient.messages.create is given: the parts of the system
\* prompt and the messages
ModelRequest(memoryUsed, ragContext, messages) ==
  [memory |-> memoryUsed, rag |-> ragContext, messages |-> messages]

NoResponse ==
  [kind |-> "none", ragUsed |-> FALSE, sourcesCount |-> 0, memoryUsed |-> FALSE]
AgentResponse(rag, memoryUsed) ==
  [kind |-> "response", ragUsed |-> rag.ragUsed, sourcesCount |-> rag.sourcesCount,
   memoryUsed |-> memoryUsed]
\* the promise rejected, `cause` being the call that threw
Rejection(cause) ==
  [kind |-> cause, ragUsed |-> FALSE, sourcesCount |-> 0, memoryUsed |-> FALSE]

HISTORY_SLICE == 10       \* history.slice(-10)

\* addMessage(sessionId, role, content)
addMessage(history, role, content) == Append(history, [role |-> role, content |-> content])

\* history.slice(-n)
LastOf(history, n) == SubSeq(history, Max(1, Len(history) - n + 1), Len(history))

\* lines 669-684: the last messages of the history, then the current message
BuildMessages(history, userMessage) ==
  Append(LastOf(history, HISTORY_SLICE), [role |-> "user", content |-> userMessage])

\* what the model's turns put into `messages` and into the history
ToolUse == <<"tool_use">>
ToolResult == <<"tool_result">>
FinalContent == <<"reply">>

\* lines 656-699: the prompt and the messages are built, a request goes out
PM_CallModel(memoryUsed, rag, messages) ==
  /\ pm_messages' = messages
  /\ pm_requests' = Append(pm_requests, ModelRequest(memoryUsed, rag.ragContext, messages))
  /\ pm_pc' = "model"

\* lines 632-640: retrieval is asked for, or the model is called at once
PM_AfterMemory(history, msg, memoryUsed) ==
  IF ragEnabled /\ shouldUseRAG(msg)
  THEN /\ pm_pc' = "retrieve"
       /\ UNCHANGED <<pm_requests, pm_messages>>
  ELSE PM_CallModel(memoryUsed, NoRag, BuildMessages(history, msg))

\* Entry: lines 600-631.
PM_Call(msg, clientReady, memoryOn) ==
  /\ pm_pc = "idle"
  /\ pm_msg' = msg
  /\ pm_rounds' = 0
  /\ pm_rag' = NoRag
  /\ pm_memoryUsed' = FALSE
  /\ pm_retrieval' = "none"
  /\ IF ~clientReady
     THEN /\ pm_pc' = "thrown"
          /\ pm_resp' = Rejection("no client")
          /\ UNCHANGED <<pm_requests, pm_history, pm_messages>>
     ELSE /\ UNCHANGED pm_resp
          /\ pm_history' = addMessage(pm_history, "user", msg)
          /\ IF memoryOn
             THEN /\ pm_pc' = "memory"
                  /\ UNCHANGED <<pm_requests, pm_messages>>
             ELSE PM_AfterMemory(addMessage(pm_history, "user", msg), msg, FALSE)
  /\ UNCHANGED nonAgentVars

\* searchMemory settled: lines 617-629.  A rejection is logged and dropped.
PM_MemoryDone(outcome) ==
  /\ pm_pc = "memory"
  /\ pm_memoryUsed' = (outcome = "found")
  /\ PM_AfterMemory(pm_history, pm_msg, outcome = "found")
  /\ UNCHANGED <<pm_msg, pm_rounds, pm_rag, pm_retrieval, pm_resp, pm_history,
                 nonAgentVars>>

\* retrieve resolved: lines 640-650, then 656-699.
PM_Retrieved(order) ==
  /\ pm_pc = "retrieve"
  /\ LET results == retrieve(store, pm_msg,
                             [limit |-> RagMaxResults, minScore |-> RagMinSimilarity,
                              channelName |-> parseQueryFilters(pm_msg).channelName],
                             order).results
         rag == IF Len(results) > 0
                THEN [ragContext |-> results, ragUsed |-> TRUE, sourcesCount |-> Len(results)]
                ELSE NoRag
     IN /\ pm_rag' = rag
        /\ PM_CallModel(pm_memoryUsed, rag, BuildMessages(pm_history, pm_msg))
  /\ pm_retrieval' = "resolved"
  /\ UNCHANGED <<pm_msg, pm_rounds, pm_memoryUsed, pm_resp, pm_history, nonAgentVars>>

\* Faulty variant: the rejection of retrieve is not caught.
PM_RetrieveFailedEscapes ==
  /\ pm_pc = "retrieve"
  /\ pm_retrieval' = "rejected"
  /\ pm_pc' = "thrown"
  /\ pm_resp' = Rejection("retrieval")
  /\ UNCHANGED <<pm_msg, pm_rounds, pm_rag, pm_memoryUsed, pm_requests, pm_history,
                 pm_messages, nonAgentVars>>

\* retrieve rejected: the catch of lines 651-653, then 656-699.
PM_RetrieveFailed ==
  /\ pm_pc = "retrieve"
  /\ pm_retrieval' = "rejected"
  /\ PM_CallModel(pm_memoryUsed, pm_rag, BuildMessages(pm_history, pm_msg))
  /\ UNCHANGED <<pm_msg, pm_rounds, pm_rag, pm_memoryUsed, pm_resp, pm_history,
                 nonAgentVars>>

\* The model answered: lines 703-776.  stop_reason 'tool_use' starts the
\* tools; anything else ends the request, the answer saved to the history.
PM_ModelResponded(stop_reason) ==
  /\ pm_pc = "model"
  /\ IF stop_reason = "tool_use"
     THEN /\ pm_rounds < MaxToolRounds
          /\ pm_rounds' = pm_rounds + 1
          /\ pm_pc' = "tools"
          /\ UNCHANGED <<pm_resp, pm_history>>
     ELSE /\ pm_pc' = "returned"
          /\ pm_resp' = AgentResponse(pm_rag, pm_memoryUsed)
          /\ pm_history' = addMessage(pm_history, "assistant", FinalContent)
          /\ UNCHANGED pm_rounds
  /\ UNCHANGED <<pm_msg, pm_rag, pm_memoryUsed, pm_retrieval, pm_requests, pm_messages,
                 nonAgentVars>>

\* messages.create rejected: nothing in processMessage catches it.
PM_ModelFailed ==
  /\ pm_pc = "model"
  /\ pm_pc' = "thrown"
  /\ pm_resp' = Rejection("model")
  /\ UNCHANGED <<pm_msg, pm_rounds, pm_rag, pm_memoryUsed, pm_retrieval, pm_requests,
                 pm_history, pm_messages, nonAgentVars>>

\* Every tool of the round has returned (executeTool does not throw): the
\* assistant's turn and the tool result are pushed to `messages` and the
\* next request goes out with the same system prompt, lines 704-741.
PM_ToolsDone ==
  /\ pm_pc = "tools"
  /\ PM_CallModel(pm_memoryUsed, pm_rag,
                  pm_messages \o <<[role |-> "assistant", content |-> ToolUse],
                                   [role |-> "user", content |-> ToolResult]>>)
  /\ UNCHANGED <<pm_msg, pm_rounds, pm_rag, pm_memoryUsed, pm_retrieval, pm_resp,
                 pm_history, nonAgentVars>>

\* ------------------------------------------------------------------------
\* retrieve, step by step: embed the query, search the store for 2 x limit
\* candidates, re-rank them if asked to, cut to limit.
\* ------------------------------------------------------------------------
NoOptions == [limit |-> 0, channelName |-> NoFilter, minScore |-> 0, rerank |-> FALSE]

RT_Call(queryText, options) ==
  /\ rt_pc = "idle"
  /\ rt_query' = queryText
  /\ rt_options' = options
  /\ rt_pc' = "embed"
  /\ UNCHANGED <<rt_queryVector, rt_candidates, rt_ret, nonRetrieverVars>>

\* the Embedder answered
RT_Embedded ==
  /\ rt_pc = "embed"
  /\ rt_queryVector' = QueryVector(rt_query)
  /\ rt_pc' = "search"
  /\ UNCHANGED <<rt_query, rt_options, rt_candidates, rt_ret, nonRetrieverVars>>

\* Faulty variant: the store is asked for `limit` candidates only.
RT_SearchedAsksLimit ==
  /\ rt_pc = "search"
  /\ LET candidates == search(store, rt_queryVector,
                              [limit |-> rt_options.limit,
                               scopeFilter |-> rt_options.channelName,
                               minScore |-> rt_options.minScore])
     IN /\ rt_candidates' = candidates
        /\ IF rt_options.rerank
           THEN /\ rt_pc' = "rerank"
                /\ UNCHANGED rt_ret
           ELSE /\ rt_pc' = "returned"
                /\ rt_ret' = Take(candidates, rt_options.limit)
  /\ UNCHANGED <<rt_query, rt_options, rt_queryVector, nonRetrieverVars>>

\* the Vector Store answered
RT_Searched ==
  /\ rt_pc = "search"
  /\ LET candidates == search(store, rt_queryVector,
                              [limit |-> 2 * rt_options.limit,
                               scopeFilter |-> rt_options.channelName,
                               minScore |-> rt_options.minScore])
     IN /\ rt_candidates' = candidates
        /\ IF rt_options.rerank
           THEN /\ rt_pc' = "rerank"
                /\ UNCHANGED rt_ret
           ELSE /\ rt_pc' = "returned"
                /\ rt_ret' = Take(candidates, rt_options.limit)
  /\ UNCHANGED <<rt_query, rt_options, rt_queryVector, nonRetrieverVars>>

\* the secondary relevance judgment answered
RT_Reranked(order) ==
  /\ rt_pc = "rerank"
  /\ rt_ret' = Take(Rerank(rt_candidates, order), rt_options.limit)
  /\ rt_pc' = "returned"
  /\ UNCHANGED <<rt_query, rt_options, rt_queryVector, rt_candidates, nonRetrieverVars>>

\* the Embedder, the store or the re-ranking failed: retrieve propagates it
RT_Failed ==
  /\ rt_pc \in {"embed", "search", "rerank"}
  /\ ~(rt_pc = "embed" /\ IsBlank(rt_query))
  /\ rt_pc' = "thrown"
  /\ UNCHANGED <<rt_query, rt_options, rt_queryVector, rt_candidates, rt_ret,
                 nonRetrieverVars>>

\* ------------------------------------------------------------------------
\* TaskScheduler (src/src/index.ts:198-349).  A task row is [status, cron,
\* posts, user]: user is the userId the task was scheduled for, cron is "none" for a task without cron expression, "valid" or
\* "invalid" for one with an expression cron.validate accepts or refuses;
\* posts counts the reminders posted for it.  A run is a call of
\* processPendingTasks or a cron callback awaiting chat.postMessage for the
\* task `cur`, with the tasks of its list still to come in `todo`.
\* ------------------------------------------------------------------------
MaxTasks == 2        \* tasks scheduled
MaxRuns == 2         \* checks and cron callbacks in flight at once
MaxPosts == 2        \* executions of one recurring task

CronKinds == {"none", "valid", "invalid"}

\* task.cronExpression is truthy
HasCron(task) == task.cron # "none"

\* getPendingTasks(): the ids of the pending tasks, ascending
getPendingTasks(tasks) ==
  SelectSeq([k \in 1..Len(tasks) |-> k], LAMBDA id : tasks[id].status = "pending")

\* Faulty variant: the loop does not skip the tasks with a cron expression.
SkipNoTasks(tasks, list) == list

\* lines 291-294: the loop passes over the tasks with a cron expression
RECURSIVE SkipCronTasks(_, _)
SkipCronTasks(tasks, list) ==
  IF list = <<>> THEN <<>>
  ELSE IF HasCron(tasks[Head(list)]) THEN SkipCronTasks(tasks, Tail(list))
  ELSE list

\* updateTaskStatus(id, status)
updateTaskStatus(tasks, id, status) == [tasks EXCEPT ![id].status = status]

Remove(s, k) == SubSeq(s, 1, k - 1) \o SubSeq(s, k + 1, Len(s))

\* The loop of processPendingTasks over `list`, from the table `tasks`, up
\* to its next await: executeTask marks the first task without cron
\* expression as running and awaits chat.postMessage (lines 291-307); with
\* no such task the call ends.
RunLoop(tasks, runs, list) ==
  LET rest == SkipCronTasks(tasks, list)
  IN IF rest = <<>>
     THEN /\ sc_tasks' = tasks
          /\ sc_runs' = runs
     ELSE /\ sc_tasks' = updateTaskStatus(tasks, Head(rest), "running")
          /\ sc_runs' = Append(runs, [kind |-> "check", cur |-> Head(rest),
                                      todo |-> Tail(rest)])

processPendingTasks == RunLoop(sc_tasks, sc_runs, getPendingTasks(sc_tasks))

\* Faulty variant: start() does not look at isRunning.
SC_StartUnguarded ==
  /\ Len(sc_runs) < MaxRuns
  /\ sc_isRunning' = TRUE
  /\ sc_checkInterval' = TRUE
  /\ sc_timers' = sc_timers + 1
  /\ processPendingTasks
  /\ sc_last' = "start"
  /\ UNCHANGED <<sc_jobs, nonSchedulerVars>>

\* start(): lines 203-219
SC_Start ==
  /\ IF sc_isRunning
     THEN UNCHANGED <<sc_isRunning, sc_checkInterval, sc_timers, sc_tasks, sc_runs>>
     ELSE /\ Len(sc_runs) < MaxRuns
          /\ sc_isRunning' = TRUE
          /\ sc_checkInterval' = TRUE
          /\ sc_timers' = sc_timers + 1
          /\ processPendingTasks
  /\ sc_last' = "start"
  /\ UNCHANGED <<sc_jobs, nonSchedulerVars>>

\* stop(): lines 222-237
SC_Stop ==
  /\ sc_timers' = IF sc_checkInterval THEN sc_timers - 1 ELSE sc_timers
  /\ sc_checkInterval' = FALSE
  /\ sc_jobs' = {}
  /\ sc_isRunning' = FALSE
  /\ sc_last' = "stop"
  /\ UNCHANGED <<sc_tasks, sc_runs, nonSchedulerVars>>

\* scheduleTask() and setupCronJob(): lines 240-285
SC_ScheduleTask(userId, cron) ==
  /\ Len(sc_tasks) < MaxTasks
  /\ sc_tasks' = Append(sc_tasks, [status |-> "pending", cron |-> cron, posts |-> 0,
                                   user |-> userId])
  /\ sc_jobs' = IF cron = "valid" THEN sc_jobs \cup {Len(sc_tasks) + 1} ELSE sc_jobs
  /\ sc_last' = "scheduleTask"
  /\ UNCHANGED <<sc_isRunning, sc_checkInterval, sc_timers, sc_runs, nonSchedulerVars>>

\* The interval timer fires: line 213-215.
SC_Tick ==
  /\ sc_timers > 0
  /\ Len(sc_runs) < MaxRuns
  /\ processPendingTasks
  /\ UNCHANGED <<sc_isRunning, sc_checkInterval, sc_timers, sc_jobs, sc_last,
                 nonSchedulerVars>>

\* The cron job of task `id` fires: lines 279-281, then executeTask up to
\* its await.
SC_CronFire(id) ==
  /\ id \in sc_jobs
  /\ Len(sc_runs) < MaxRuns
  /\ sc_tasks[id].posts < MaxPosts
  /\ sc_tasks' = updateTaskStatus(sc_tasks, id, "running")
  /\ sc_runs' = Append(sc_runs, [kind |-> "cron", cur |-> id, todo |-> <<>>])
  /\ UNCHANGED <<sc_isRunning, sc_checkInterval, sc_timers, sc_jobs, sc_last,
                 nonSchedulerVars>>

\* chat.postMessage of run k settled: executeTask lines 313-325, then the
\* caller's loop goes on.
SC_PostDone(k, outcome) ==
  /\ k \in 1..Len(sc_runs)
  /\ LET run == sc_runs[k]
         task == sc_tasks[run.cur]
         status == IF outcome = "rejected" THEN "failed"
                   ELSE IF HasCron(task) THEN "pending" ELSE "completed"
         posts == IF outcome = "rejected" THEN task.posts ELSE task.posts + 1
         tasks == [sc_tasks EXCEPT ![run.cur] = [task EXCEPT !.status = status,
                                                             !.posts = posts]]
     IN RunLoop(tasks, Remove(sc_runs, k), run.todo)
  /\ UNCHANGED <<sc_isRunning, sc_checkInterval, sc_timers, sc_jobs, sc_last,
                 nonSchedulerVars>>

\* dbCancelTask(taskId, userId) of the database module: a task is cancelled
\* by the user it belongs to; the call returns whether a row was changed.
dbCancelTaskReturns(tasks, taskId, userId) ==
  taskId \in 1..Len(tasks) /\ tasks[taskId].user = userId

dbCancelTask(tasks, taskId, userId) ==
  IF dbCancelTaskReturns(tasks, taskId, userId)
  THEN updateTaskStatus(tasks, taskId, "cancelled")
  ELSE tasks

\* cancelTask(taskId, userId): lines 334-345
SC_CancelTask(taskId, userId) ==
  /\ sc_jobs' = sc_jobs \ {taskId}
  /\ sc_tasks' = dbCancelTask(sc_tasks, taskId, userId)
  /\ sc_last' = "cancelTask"
  /\ UNCHANGED <<sc_isRunning, sc_checkInterval, sc_timers, sc_runs, nonSchedulerVars>>

\* ------------------------------------------------------------------------
\* main() and shutdown() step by step (src/src/index.ts:43-175).  The
\* signal handlers are registered before main() is called, so shutdown() may
\* run beside a main() that is still starting services, and every signal
\* calls shutdown() anew (lines 161-162).  lc_started and lc_stopped list
\* the services in the order they were started and stopped.
\* ------------------------------------------------------------------------
MaxSignals == 2      \* SIGINT / SIGTERM signals delivered to one process

indexerVars == <<ragEnabled, restarts, source, clock, store, checkpoint, busy, inFlight,
                 scopeState, cycPc, todo, cur, fetched, vectors, cpStart, storeStart,
                 cycFailed, cycDone, cycFetched>>

\* process.exit(code): "shutdown" is exit(0), "error" the exit(1) of
\* shutdown's catch, "startup" the exit(1) of main's catch
Exit(kind) ==
  /\ proc' = "stopped"
  /\ exitKind' = kind
  /\ lc_pc' = "exited"
  /\ lc_shutdowns' = <<>>
  /\ shutPc' = "none"
  /\ dbOpen' = FALSE
  /\ timerOn' = FALSE

\* lines 70-85: the memory system is initialized if enabled, else MCP
AfterRag == IF lc_memoryEnabled THEN "memory" ELSE "mcp"

\* main() up to its first await: lines 44-59, or lines 44-85 without RAG
LC_Main(dbFails) ==
  /\ proc = "running" /\ lc_pc = "start"
  /\ IF dbFails
     THEN /\ Exit("startup")
          /\ UNCHANGED lc_started
     ELSE /\ dbOpen' = TRUE
          /\ lc_started' = Append(lc_started, "database")
          /\ lc_pc' = IF ragEnabled THEN "vectorStore" ELSE AfterRag
          /\ UNCHANGED <<proc, exitKind, shutPc, timerOn, lc_shutdowns>>
  /\ UNCHANGED <<lc_memoryEnabled, lc_stopped, indexerVars, nonProcessVars>>

\* initializeVectorStore() resolved: line 59-60
LC_VectorStoreReady ==
  /\ proc = "running" /\ lc_pc = "vectorStore"
  /\ lc_started' = Append(lc_started, "vectorStore")
  /\ lc_pc' = "docCount"
  /\ UNCHANGED <<proc, exitKind, shutPc, dbOpen, timerOn, lc_memoryEnabled, lc_stopped,
                 lc_shutdowns, indexerVars, nonProcessVars>>

\* getDocumentCount() resolved: startIndexer(), lines 60-85
LC_DocCounted ==
  /\ proc = "running" /\ lc_pc = "docCount"
  /\ timerOn' = TRUE
  /\ lc_started' = Append(lc_started, "indexer")
  /\ lc_pc' = AfterRag
  /\ UNCHANGED <<proc, exitKind, shutPc, dbOpen, lc_memoryEnabled, lc_stopped,
                 lc_shutdowns, indexerVars, nonProcessVars>>

\* initializeMemory() resolved: lines 73-85.  `ok` is isMemoryEnabled();
\* without it main() warns and goes on.
LC_MemoryDone(ok) ==
  /\ proc = "running" /\ lc_pc = "memory"
  /\ lc_started' = IF ok THEN Append(lc_started, "memory") ELSE lc_started
  /\ lc_pc' = "mcp"
  /\ UNCHANGED <<proc, exitKind, shutPc, dbOpen, timerOn, lc_memoryEnabled, lc_stopped,
                 lc_shutdowns, indexerVars, nonProcessVars>>

\* initializeMCP() resolved: lines 86-100, taskScheduler.start() and the
\* call of startSlackApp()
LC_MCPDone ==
  /\ proc = "running" /\ lc_pc = "mcp"
  /\ lc_started' = lc_started \o <<"mcp", "scheduler">>
  /\ lc_pc' = "slack"
  /\ UNCHANGED <<proc, exitKind, shutPc, dbOpen, timerOn, lc_memoryEnabled, lc_stopped,
                 lc_shutdowns, indexerVars, nonProcessVars>>

\* startSlackApp() resolved: lines 101-114
LC_SlackStarted ==
  /\ proc = "running" /\ lc_pc = "slack"
  /\ lc_started' = Append(lc_started, "slack")
  /\ lc_pc' = "ready"
  /\ UNCHANGED <<proc, exitKind, shutPc, dbOpen, timerOn, lc_memoryEnabled, lc_stopped,
                 lc_shutdowns, indexerVars, nonProcessVars>>

\* an awaited call of main() rejected: the catch of lines 116-119
LC_StartFailed ==
  /\ proc = "running" /\ lc_pc \in {"vectorStore", "docCount", "memory", "mcp", "slack"}
  /\ Exit("startup")
  /\ UNCHANGED <<lc_started, lc_memoryEnabled, lc_stopped, indexerVars, nonProcessVars>>

\* SIGINT / SIGTERM: the handler of lines 161-162 calls shutdown(), which
\* runs up to await stopSlackApp(), lines 126-132
LC_Signal ==
  /\ proc = "running" /\ lc_pc # "start"
  /\ Len(lc_shutdowns) < MaxSignals
  /\ lc_shutdowns' = Append(lc_shutdowns, "stopSlack")
  /\ UNCHANGED <<proc, exitKind, shutPc, dbOpen, timerOn, lc_pc, lc_started,
                 lc_memoryEnabled, lc_stopped, indexerVars, nonProcessVars>>

\* stopSlackApp() of the shutdown() call k resolved: lines 134-136
LC_SlackStopped(k) ==
  /\ proc = "running" /\ lc_shutdowns[k] = "stopSlack"
  /\ lc_stopped' = Append(lc_stopped, "slack")
  /\ lc_shutdowns' = [lc_shutdowns EXCEPT ![k] = "stopMCP"]
  /\ UNCHANGED <<proc, exitKind, shutPc, dbOpen, timerOn, lc_pc, lc_started,
                 lc_memoryEnabled, indexerVars, nonProcessVars>>

\* shutdownMCP() of the shutdown() call k resolved: lines 138-153 run in
\* one turn
LC_MCPStopped(k) ==
  /\ proc = "running" /\ lc_shutdowns[k] = "stopMCP"
  /\ lc_stopped' = lc_stopped \o <<"mcp">>
                     \o (IF ragEnabled THEN <<"indexer">> ELSE <<>>)
                     \o <<"scheduler", "database">>
  /\ Exit("shutdown")
  /\ UNCHANGED <<lc_started, lc_memoryEnabled, indexerVars, nonProcessVars>>

\* stopSlackApp() or shutdownMCP() of the shutdown() call k rejected: the
\* catch of lines 154-157
LC_StopFailed(k) ==
  /\ proc = "running" /\ lc_shutdowns[k] \in {"stopSlack", "stopMCP"}
  /\ Exit("error")
  /\ UNCHANGED <<lc_started, lc_memoryEnabled, lc_stopped, indexerVars, nonProcessVars>>

\* The scheduler inside the process.  The last turn of shutdown(), lines
\* 144-153: taskScheduler.stop(), closeDatabase(), process.exit(0); the
\* checks and callbacks in flight end with the process.
SC_Shutdown ==
  /\ proc = "running"
  /\ sc_timers' = IF sc_checkInterval THEN sc_timers - 1 ELSE sc_timers
  /\ sc_checkInterval' = FALSE
  /\ sc_jobs' = {}
  /\ sc_isRunning' = FALSE
  /\ sc_last' = "stop"
  /\ sc_runs' = <<>>
  /\ Exit("shutdown")
  /\ UNCHANGED <<sc_tasks, lc_started, lc_memoryEnabled, lc_stopped, indexerVars,
                 embedVars, e1Vars, kbVars, pmVars, rtVars, csVars>>

\* The process is launched again: main() with a new TaskScheduler and an
\* empty activeJobs map (lines 196-201), the task table as the database
\* kept it, up to taskScheduler.start() of line 95.
SC_Launch ==
  /\ proc = "stopped"
  /\ restarts < MaxRestarts
  /\ restarts' = restarts + 1
  /\ proc' = "running"
  /\ exitKind' = "none"
  /\ dbOpen' = TRUE
  /\ timerOn' = ragEnabled
  /\ lc_pc' = "ready"
  /\ sc_isRunning' = TRUE
  /\ sc_checkInterval' = TRUE
  /\ sc_timers' = 1
  /\ sc_jobs' = {}
  /\ RunLoop(sc_tasks, <<>>, getPendingTasks(sc_tasks))
  /\ sc_last' = "start"
  /\ UNCHANGED <<ragEnabled, shutPc, source, clock, store, checkpoint, busy, inFlight,
                 scopeState, cycPc, todo, cur, fetched, vectors, cpStart, storeStart,
                 cycFailed, cycDone, cycFetched,
                 lc_memoryEnabled, lc_started, lc_stopped, lc_shutdowns,
                 embedVars, e1Vars, kbVars, pmVars, rtVars, csVars>>

\* ------------------------------------------------------------------------
\* Specifications
\* ------------------------------------------------------------------------
InitEmbedIdle ==
  /\ ce_pc = "idle" /\ ce_texts = <<>> /\ ce_validTexts = <<>> /\ ce_results = <<>>
  /\ ce_i = 0 /\ ce_ret = NULL /\ ce_trace = <<>> /\ ce_failure = NoFailure
  /\ e1_pc = "idle" /\ e1_text = <<>> /\ e1_requests = <<>> /\ e1_ret = NULL
  /\ e1_failure = NoFailure

\* A process with config.rag.enabled being `enabled`; the source, the store
\* and the indexer at their beginning.
InitIndexerState(enabled) ==
  /\ ragEnabled = enabled
  /\ proc = "running" /\ exitKind = "none" /\ shutPc = "none"
  /\ restarts = 0
  /\ source = {} /\ clock = 0
  /\ store = {} /\ checkpoint = [s \in Scopes |-> 0]
  /\ busy = FALSE /\ inFlight = 0
  /\ scopeState = [s \in Scopes |-> "IDLE"]
  /\ cycPc = "idle" /\ todo = <<>> /\ cur = "A" /\ fetched = <<>> /\ vectors = <<>>
  /\ cpStart = [s \in Scopes |-> 0] /\ storeStart = {} /\ cycFailed = {} /\ cycDone = {}
  /\ cycFetched = [s \in Scopes |-> {}]

\* The process after main() ran through.
InitProcess(enabled) == InitIndexerState(enabled) /\ dbOpen = TRUE /\ timerOn = enabled

InitIndexer == InitProcess(TRUE)

InitToolIdle ==
  /\ kb_pc = "idle" /\ kb_args = [query |-> <<>>, channel_name |-> <<>>, limit |-> 0]
  /\ kb_query = <<>> /\ kb_filter = <<>> /\ kb_calls = <<>>
  /\ kb_first = NoRetrieval /\ kb_broader = NoRetrieval /\ kb_out = NoPayload

\* no processMessage call yet, the session's stored messages being `history`
InitAgentSession(history) ==
  /\ pm_pc = "idle" /\ pm_msg = <<>> /\ pm_rounds = 0 /\ pm_rag = NoRag
  /\ pm_memoryUsed = FALSE /\ pm_retrieval = "none" /\ pm_requests = <<>>
  /\ pm_resp = NoResponse
  /\ pm_history = history /\ pm_messages = <<>>

InitAgentIdle == InitAgentSession(<<>>)

InitRetrieverIdle ==
  /\ rt_pc = "idle" /\ rt_query = <<>> /\ rt_options = NoOptions
  /\ rt_queryVector = ZeroVector /\ rt_candidates = <<>> /\ rt_ret = <<>>

\* The indexer against a changing source, with failures, restarts and shutdown.
InitSimilarityIdle ==
  cs_pc = "idle" /\ cs_a = <<>> /\ cs_b = <<>> /\ cs_ret = Zero /\ cs_round = 0

\* main() has run through, nothing is being shut down
InitLifecycleReady ==
  /\ lc_pc = "ready" /\ lc_memoryEnabled = FALSE /\ lc_started = <<>> /\ lc_stopped = <<>>
  /\ lc_shutdowns = <<>>

\* the scheduler as constructed, the task table empty
InitSchedulerIdle ==
  /\ sc_isRunning = FALSE /\ sc_checkInterval = FALSE /\ sc_timers = 0
  /\ sc_jobs = {} /\ sc_tasks = <<>> /\ sc_runs = <<>> /\ sc_last = "none"

InitIdle ==
  /\ InitEmbedIdle /\ InitToolIdle /\ InitAgentIdle /\ InitRetrieverIdle
  /\ InitSimilarityIdle /\ InitSchedulerIdle

Init == InitIdle /\ InitLifecycleReady /\ InitIndexer

NextIndexer ==
  \/ \E s \in Scopes : \E text \in ScopeTexts(s) : SourceAdd(s, text)
  \/ \E r \in source : \E text \in ScopeTexts(r.scope) : SourceEdit(r, text)
  \/ Tick
  \/ BeginScope
  \/ EmbedDone
  \/ EmbedFail
  \/ UpsertDone
  \/ UpsertFail
  \/ Advance
  \/ EndCycle
  \/ \E s \in Scopes : ResetCheckpoint(s)
  \/ Signal
  \/ ShutdownSlackStopped
  \/ ShutdownFinish
  \/ ShutdownError
  \/ Crash
  \/ Main

SpecIndexer == Init /\ [][NextIndexer]_vars

\* createEmbeddings on every input array up to MaxTexts texts.
EmbedTexts == {<<>>, <<" ">>, <<"a">>, <<" ", "b">>}

RECURSIVE SeqsUpTo(_, _)
SeqsUpTo(S, n) ==
  IF n = 0 THEN {<<>>}
  ELSE LET shorter == SeqsUpTo(S, n - 1)
       IN shorter \cup {Append(q, x) : q \in {z \in shorter : Len(z) = n - 1}, x \in S}

EmbedInputs == SeqsUpTo(EmbedTexts, MaxTexts)

InitEmbed == Init

\* One call at a time: of createEmbeddings, or of createEmbedding.
NextEmbed ==
  \/ e1_pc = "idle" /\ \E texts \in EmbedInputs : CE_Call(texts)
  \/ ce_pc = "idle" /\ \E text \in EmbedTexts : E1_Call(text)
  \/ E1_Response
  \/ E1_Fail
  \/ CE_Send
  \/ CE_Response
  \/ CE_Fail
  \/ CE_DelayDone
  \/ CE_Return

SpecEmbed == InitEmbed /\ [][NextEmbed]_vars

\* createEmbeddings with a provider that may also resolve with a response
\* that has no embeddings or too few.
NextEmbedProvider ==
  \/ \E texts \in EmbedInputs : CE_Call(texts)
  \/ CE_Send
  \/ CE_Response
  \/ \E response \in ShortResponses(BatchTexts(BatchAt(ce_validTexts, ce_i))) :
        CE_ShortResponse(response)
  \/ CE_Fail
  \/ CE_DelayDone
  \/ CE_Return

SpecEmbedProvider == InitEmbed /\ [][NextEmbedProvider]_vars

\* The search tool, called with every argument combination, beside an
\* indexer that writes to the store.
ToolQueries == {<<"b", "b">>, <<UserMention, " ", "a">>, <<" ">>}
ToolChannels == {<<>>, <<"A">>, <<"#", "B">>, <<ChannelMention>>, <<ChannelMentionNamed>>,
                 ChannelIdText}
ToolLimits == {0, 1, 2}
ToolArgs == [query : ToolQueries, channel_name : ToolChannels, limit : ToolLimits]

NextSearchTool ==
  \/ \E rec \in CorpusRecords : IndexerWrote(rec)
  \/ \E args \in ToolArgs : KB_Call(args)
  \/ \E found \in {<<>>, <<"A">>} : KB_ChannelLookedUp(found)
  \/ \E order \in RerankOrders : KB_Retrieved(order)
  \/ \E order \in RerankOrders : KB_BroaderRetrieved(order)
  \/ KB_Failed

SpecSearchTool == Init /\ [][NextSearchTool]_vars

\* processMessage on every kind of message, beside an indexer that writes
\* to the store.
AgentMessages ==
  {<<"h", "i">>, <<RetrospectiveCue, " ", "b">>, <<RetrospectiveCue, " ", ChannelRefA>>}

NextAgent ==
  \/ \E rec \in CorpusRecords : IndexerWrote(rec)
  \/ \E msg \in AgentMessages, clientReady, memoryOn \in BOOLEAN :
        PM_Call(msg, clientReady, memoryOn)
  \/ \E outcome \in {"found", "nothing", "rejected"} : PM_MemoryDone(outcome)
  \/ \E order \in RerankOrders : PM_Retrieved(order)
  \/ PM_RetrieveFailed
  \/ \E stop_reason \in {"end_turn", "tool_use"} : PM_ModelResponded(stop_reason)
  \/ PM_ModelFailed
  \/ PM_ToolsDone

SpecAgent == Init /\ [][NextAgent]_vars

\* processMessage in a new session or in one with an earlier exchange, whose
\* texts differ from the message now sent.
EarlierExchange ==
  <<[role |-> "user", content |-> <<"e">>], [role |-> "assistant", content |-> FinalContent]>>

InitSession ==
  /\ InitEmbedIdle /\ InitToolIdle /\ InitRetrieverIdle /\ InitSimilarityIdle
  /\ InitSchedulerIdle /\ InitLifecycleReady /\ InitIndexer
  /\ \E history \in {<<>>, EarlierExchange} : InitAgentSession(history)

SpecSession == InitSession /\ [][NextAgent]_vars

\* retrieve with every option combination, beside an indexer that writes
\* to the store.
RetrieveQueries == {<<"b", "b">>, <<"a">>, <<" ">>}
RetrieveOptions ==
  [limit : {1, 2}, channelName : {NoFilter, <<"A">>}, minScore : {0, 30, 80},
   rerank : BOOLEAN]

NextRetriever ==
  \/ \E rec \in CorpusRecords : IndexerWrote(rec)
  \/ \E queryText \in RetrieveQueries, options \in RetrieveOptions :
        RT_Call(queryText, options)
  \/ RT_Embedded
  \/ RT_Searched
  \/ \E order \in RerankOrders : RT_Reranked(order)
  \/ RT_Failed

SpecRetriever == Init /\ [][NextRetriever]_vars

\* User messages handled with retrieval enabled or disabled: the model may
\* ask for the knowledge-base tool, the process may die and start again, and
\* the indexer writes to the store only while it runs.
InitConfigured ==
  InitIdle /\ InitLifecycleReady /\ \E enabled \in BOOLEAN : InitProcess(enabled)

ConfiguredToolArgs ==
  {[query |-> <<"b", "b">>, channel_name |-> ch, limit |-> 0] : ch \in {<<>>, <<"A">>}}

NextConfigured ==
  \/ timerOn /\ \E rec \in {x \in CorpusRecords : x.id <= 2} : IndexerWrote(rec)
  \/ proc = "running" /\ \E msg \in AgentMessages, memoryOn \in BOOLEAN :
        PM_Call(msg, TRUE, memoryOn)
  \/ \E outcome \in {"found", "rejected"} : PM_MemoryDone(outcome)
  \/ \E order \in RerankOrders : PM_Retrieved(order)
  \/ PM_RetrieveFailed
  \/ \E stop_reason \in {"end_turn", "tool_use"} : PM_ModelResponded(stop_reason)
  \/ PM_ModelFailed
  \/ proc = "running" /\ pm_pc = "tools" /\ \E args \in ConfiguredToolArgs : KB_Call(args)
  \/ \E order \in RerankOrders : KB_Retrieved(order)
  \/ \E order \in RerankOrders : KB_BroaderRetrieved(order)
  \/ KB_Failed
  \/ kb_pc \in {"idle", "returned"} /\ PM_ToolsDone
  \/ Crash
  \/ Main

SpecConfigured == InitConfigured /\ [][NextConfigured]_vars

\* The process from its launch to its exit, under every configuration, with
\* every awaited call resolving or rejecting and a signal at any moment.
InitLaunched ==
  /\ InitIdle
  /\ \E enabled \in BOOLEAN : InitIndexerState(enabled)
  /\ dbOpen = FALSE /\ timerOn = FALSE
  /\ lc_pc = "start" /\ lc_memoryEnabled \in BOOLEAN
  /\ lc_started = <<>> /\ lc_stopped = <<>> /\ lc_shutdowns = <<>>

NextLifecycle ==
  \/ \E dbFails \in BOOLEAN : LC_Main(dbFails)
  \/ LC_VectorStoreReady
  \/ LC_DocCounted
  \/ \E ok \in BOOLEAN : LC_MemoryDone(ok)
  \/ LC_MCPDone
  \/ LC_SlackStarted
  \/ LC_StartFailed
  \/ LC_Signal
  \/ \E k \in 1..Len(lc_shutdowns) : LC_SlackStopped(k)
  \/ \E k \in 1..Len(lc_shutdowns) : LC_MCPStopped(k)
  \/ \E k \in 1..Len(lc_shutdowns) : LC_StopFailed(k)

SpecLifecycle == InitLaunched /\ [][NextLifecycle]_vars

\* The scheduler with tasks being scheduled, timer ticks, cron jobs firing
\* and reminders being posted or refused, in any interleaving.
NextScheduler ==
  \/ SC_Start
  \/ SC_Stop
  \/ \E cron \in CronKinds : SC_ScheduleTask("U1", cron)
  \/ SC_Tick
  \/ \E id \in sc_jobs : SC_CronFire(id)
  \/ \E k \in 1..Len(sc_runs), outcome \in {"resolved", "rejected"} : SC_PostDone(k, outcome)

SpecScheduler == Init /\ [][NextScheduler]_vars

\* The scheduler in its process: tasks of one user, cancelTask called by
\* that user or another one for any task id, the process shut down and
\* launched again.
Users == {"U1", "U2"}

NextSchedulerProcess ==
  \/ proc = "running" /\ SC_Start
  \/ proc = "running" /\ SC_Stop
  \/ proc = "running" /\ \E cron \in CronKinds : SC_ScheduleTask("U1", cron)
  \/ proc = "running" /\ \E taskId \in 1..MaxTasks, userId \in Users :
                            SC_CancelTask(taskId, userId)
  \/ proc = "running" /\ SC_Tick
  \/ proc = "running" /\ \E id \in sc_jobs : SC_CronFire(id)
  \/ proc = "running" /\ \E k \in 1..Len(sc_runs), outcome \in {"resolved", "rejected"} :
                            SC_PostDone(k, outcome)
  \/ SC_Shutdown
  \/ SC_Launch

SpecSchedulerProcess == Init /\ [][NextSchedulerProcess]_vars

\* cosineSimilarity on every pair of vectors of up to MaxVecLen components.
Vectors == SeqsUpTo(Components, MaxVecLen)

NextSimilarity == \E a \in Vectors, b \in Vectors : CS_Call(a, b)

SpecSimilarity == Init /\ [][NextSimilarity]_vars

\* ------------------------------------------------------------------------
\* Properties
\* ------------------------------------------------------------------------
Indexable(r) == preprocessText(r.text) # <<>>

\* The Record the index should hold for source record r.
Indexed(r) ==
  \E x \in store : x.id = r.id /\ x.ts = r.ts /\ x.text = preprocessText(r.text)

\* The running cycle has visited every scope and is about to end.
CycleAtEnd == proc = "running" /\ cycPc = "next" /\ todo = <<>>

NewestTs(recs) == CHOOSE t \in {r.ts : r \in recs} : \A r \in recs : r.ts <= t

\* C1: at most one sync cycle is in progress at any time, and a cycle starts
\* only at a timer tick that finds none running (a tick during a cycle starts
\* nothing, then or later).
C1_SingleFlight ==
  /\ [](inFlight <= 1)
  /\ [][inFlight' > inFlight => (~busy /\ inFlight = 0 /\ timerOn /\ cycPc = "idle")]_vars

\* A timer tick can fire in the middle of a running cycle.
C1_TickDuringCycle ==
  proc = "running" /\ timerOn /\ busy /\ inFlight = 1 /\ cycPc = "upsert"

\* C2: a scope's checkpoint never covers a record whose upsert has not
\* completed: every indexable source record at or below its scope's
\* checkpoint is in the store, whatever failed or crashed on the way.
C2_CheckpointOnlyAfterUpsert ==
  \A r \in source : (r.ts <= checkpoint[r.scope] /\ Indexable(r)) => Indexed(r)

\* The process died between embedding and upsert; the fetched record is
\* still above the checkpoint, to be fetched again.
C2_CrashBetweenEmbedAndUpsert ==
  /\ proc = "stopped" /\ exitKind = "crash" /\ cycPc = "upsert"
  /\ \E r \in source : Indexable(r) /\ r.ts > checkpoint[r.scope] /\ ~Indexed(r)

\* C3: when a cycle is through, every scope either failed, with its
\* checkpoint where it was when the cycle started, or was synced: what was
\* fetched for it is stored and its checkpoint is at the newest record fetched.
C3_FailureIsolatedPerScope ==
  CycleAtEnd =>
    /\ cycFailed \cup cycDone = Scopes
    /\ \A s \in cycFailed : checkpoint[s] = cpStart[s]
    /\ \A s \in cycDone :
         /\ \A r \in cycFetched[s] : Indexable(r) =>
               \E x \in store : x.id = r.id /\ x.text = preprocessText(r.text)
         /\ cycFetched[s] # {} => checkpoint[s] = NewestTs(cycFetched[s])
         /\ cycFetched[s] = {} => checkpoint[s] = cpStart[s]

\* Scope A failed and scope B was advanced in the same cycle.
C3_AFailedBAdvanced ==
  /\ CycleAtEnd
  /\ "A" \in cycFailed /\ cycFetched["A"] # {} /\ checkpoint["A"] = cpStart["A"]
  /\ "B" \in cycDone /\ checkpoint["B"] > cpStart["B"]

\* C4: no step but an explicit reset lowers a checkpoint.
C4_CheckpointMonotonic ==
  [][\A s \in Scopes : checkpoint'[s] < checkpoint[s] => ResetCheckpoint(s)]_vars

\* A restarted process still has its checkpoint, and a scope has failed since.
C4_CheckpointSurvivedRestartAndFailure ==
  /\ proc = "running" /\ restarts >= 1
  /\ cycFailed # {}
  /\ \E s \in Scopes : checkpoint[s] > 0

\* C5: the store holds at most one record per id, and right after a batch
\* is upserted each of its records is stored as written.
C5_UpsertOverwrites ==
  /\ \A x, y \in store : x.id = y.id => x = y
  /\ (proc = "running" /\ cycPc = "advance") =>
        \A k \in 1..Len(BuildRecords(fetched, vectors)) :
           BuildRecords(fetched, vectors)[k] \in store

\* An edited record was upserted over its earlier version: one record with
\* the new text, the count as before.
C5_SecondWriteReplacedFirst ==
  /\ proc = "running" /\ cycPc = "advance" /\ cur = "A"
  /\ Len(BuildRecords(fetched, vectors)) = 1
  /\ fetched[1].id \in storeStart
  /\ fetched[1].ts # fetched[1].id
  /\ Cardinality(store) = Cardinality(storeStart)
  /\ \E x \in store : x.id = fetched[1].id /\ x.text = preprocessText(fetched[1].text)

\* The cycle fetched exactly one record, r, in scope s.
OnlyFetched(s, r) ==
  /\ cycFetched[s] = {r}
  /\ \A q \in Scopes \ {s} : cycFetched[q] = {}

ScopeStep(from, to) ==
  \/ from = to
  \/ from = "IDLE" /\ to = "SYNCING"
  \/ from = "SYNCING" /\ to \in {"IDLE", "FAILED"}
  \/ from = "FAILED" /\ to = "IDLE"

\* C7: a scope's state moves only IDLE -> SYNCING -> IDLE or IDLE -> SYNCING
\* -> FAILED -> IDLE, and whenever no cycle is running the busy flag is free,
\* so that the next tick starts a cycle.
C7_ScopeStateMachine ==
  /\ [][\A s \in Scopes : ScopeStep(scopeState[s], scopeState'[s])]_vars
  /\ []((proc = "running" /\ cycPc = "idle") => (~busy /\ (timerOn => ENABLED TickStart)))

\* A failed cycle has ended and the indexer is free for the next tick.
C7_FreeAfterFailure ==
  /\ proc = "running" /\ timerOn /\ cycPc = "idle" /\ ~busy
  /\ \E s \in Scopes : scopeState[s] = "FAILED"

\* C8: a process that exited through shutdown had no sync cycle in flight
\* when it exited.
C8_ShutdownWaitsForCycle ==
  (proc = "stopped" /\ exitKind = "shutdown") => cycPc = "idle"

\* C9: createEmbeddings returns one vector per input, and the vector at the
\* position of each non-empty input is the provider's embedding of that input.
C9_OneVectorPerInputInOrder ==
  ce_pc = "returned" =>
    /\ Len(ce_ret) = Len(ce_texts)
    /\ \A k \in 1..Len(ce_texts) :
         ~IsBlank(ce_texts[k]) => ce_ret[k] = ProviderEmbedding(ce_texts[k])

\* A call returned whose inputs had an empty text before a non-empty one
\* and needed several batches.
C9_FilteredAndSeveralBatches ==
  /\ ce_pc = "returned"
  /\ Len(ce_validTexts) > MAX_BATCH_SIZE
  /\ \E j, k \in 1..Len(ce_texts) : j < k /\ IsBlank(ce_texts[j]) /\ ~IsBlank(ce_texts[k])

\* C10: once a provider call has failed the call has thrown, has handed back
\* nothing, and the failure is the last thing that happened: no later request.
C10_FailureAbortsWholeCall ==
  (\E k \in 1..Len(ce_trace) : ce_trace[k] = Failure) =>
    /\ ce_pc = "thrown"
    /\ ce_ret = NULL
    /\ ce_trace[Len(ce_trace)] = Failure

\* A call failed after an earlier batch had succeeded and with a batch left.
C10_FailedInTheMiddle ==
  /\ ce_pc = "thrown"
  /\ \E k \in 1..Len(ce_results) : ce_results[k] # NULL
  /\ ce_i + MAX_BATCH_SIZE < Len(ce_validTexts)

\* C11: the search tool runs a second, unfiltered retrieve with the same
\* query exactly when a channel filter was given and the filtered retrieve
\* came back empty; when the second retrieve finds something the returned
\* text says the results are from other channels than the one asked for.
C11_BroaderSearchOnlyAfterEmptyScopedSearch ==
  /\ Len(kb_calls) <= 2
  /\ Len(kb_calls) = 2 =>
        /\ kb_filter # NoFilter
        /\ kb_calls[1].channelName = kb_filter
        /\ kb_first.done /\ kb_first.results = <<>>
        /\ kb_calls[2] = [kb_calls[1] EXCEPT !.channelName = NoFilter]
  /\ (kb_pc = "returned" /\ kb_first.done /\ kb_first.results = <<>> /\ kb_filter # NoFilter)
        => Len(kb_calls) = 2
  /\ (kb_pc = "returned" /\ kb_broader.done /\ kb_broader.results # <<>>) =>
        /\ kb_out.kind = "other_channels"
        /\ kb_out.channel = kb_filter
        /\ kb_out.results = kb_broader.results
  /\ kb_out.kind = "other_channels" => (kb_broader.done /\ kb_broader.results # <<>>)

\* Nothing above the floor in channel A, something in channel B: the tool
\* answered with the broader results.
C11_FoundOnlyInOtherChannels ==
  /\ kb_pc = "returned"
  /\ kb_filter = <<"A">>
  /\ Len(kb_calls) = 2
  /\ kb_out.kind = "other_channels"
  /\ \E k \in 1..Len(kb_out.results) : kb_out.results[k].scope = "B"

\* C12: when retrieve rejects during processMessage the model is still
\* called, with no retrieved context in any request, and the request ends
\* with ragUsed = false and sourcesCount = 0; it fails only if the model
\* call itself fails.
C12_RetrievalFailureDegrades ==
  pm_retrieval = "rejected" =>
    /\ Len(pm_requests) >= 1
    /\ \A k \in 1..Len(pm_requests) : pm_requests[k].rag = <<>>
    /\ pm_rag = NoRag
    /\ pm_pc \in {"model", "tools", "returned", "thrown"}
    /\ pm_pc = "returned" =>
          (pm_resp.kind = "response" /\ ~pm_resp.ragUsed /\ pm_resp.sourcesCount = 0)
    /\ pm_pc = "thrown" => pm_resp.kind = "model"

\* Retrieval failed, the model went through a tool round and the request
\* was answered.
C12_AnsweredAfterRetrievalFailure ==
  /\ pm_retrieval = "rejected"
  /\ pm_pc = "returned"
  /\ Len(pm_requests) = 2
  /\ pm_resp.kind = "response"

\* The score of stored record x against the embedded query.
TrueScore(id) ==
  cosineSimilarity(rt_queryVector, (CHOOSE x \in CorpusRecords : x.id = id).vector)

\* C13: every result that search handed to retrieve, and every result that
\* retrieve returned, carries its true score, and that score is not below
\* the minScore of the call, re-ranked or not.
C13_NoResultBelowMinScore ==
  /\ \A k \in 1..Len(rt_candidates) :
        /\ rt_candidates[k].score = TrueScore(rt_candidates[k].id)
        /\ ScoreAtLeast(rt_candidates[k].score, rt_options.minScore)
  /\ \A k \in 1..Len(rt_ret) :
        /\ rt_ret[k].score = TrueScore(rt_ret[k].id)
        /\ ScoreAtLeast(rt_ret[k].score, rt_options.minScore)

\* A re-ranked retrieve returned results while the store held a record of
\* the searched scope that scores below the floor.
C13_RerankedWithRecordBelowFloor ==
  /\ rt_pc = "returned"
  /\ rt_options.rerank /\ rt_options.minScore = 30
  /\ Len(rt_candidates) >= 2
  /\ rt_ret # <<>> /\ rt_ret[1] # rt_candidates[1]
  /\ \E x \in store :
        /\ MatchesScope(x, rt_options.channelName)
        /\ ~ScoreAtLeast(cosineSimilarity(rt_queryVector, x.vector), 30)

\* C14: createEmbedding of an empty or whitespace-only text returns the zero
\* vector of EMBEDDING_DIMENSIONS components, sends nothing to the provider
\* and does not throw; createEmbeddings returns the zero vector at the
\* position of every empty input, the other positions keeping their place.
C14_EmptyTextGivesZeroVector ==
  /\ Len(ZeroVector) = EMBEDDING_DIMENSIONS
  /\ (e1_pc # "idle" /\ IsBlank(e1_text)) =>
        (e1_pc = "returned" /\ e1_ret = ZeroVector /\ e1_requests = <<>>)
  /\ ce_pc = "returned" =>
        /\ Len(ce_ret) = Len(ce_texts)
        /\ \A k \in 1..Len(ce_texts) : IsBlank(ce_texts[k]) => ce_ret[k] = ZeroVector
  /\ \A k \in 1..Len(ce_trace) : \A b \in 1..Len(ce_trace[k].texts) :
        ~IsBlank(ce_trace[k].texts[b])

\* createEmbedding returned for a whitespace-only text.
C14_WhitespaceOnlyEmbedded ==
  e1_pc = "returned" /\ e1_text = <<" ">> /\ e1_ret = ZeroVector

\* Texts around the minimum length: nine characters, nine after trimming,
\* markup that expands to fewer than ten, nothing but emoji.
ShortTexts ==
  {<<"a", "b", "c", "d", "e", "f", "g", "h", "i">>,
   <<" ", "a", "b", "c", "d", "e", "f", "g", "h", "i", "\n">>,
   <<AngleLink, "a", "b", "c">>,
   <<ChannelMention, EmojiCode>>,
   <<EmojiCode, " ", EmojiCode>>,
   TextShort}

TooShort(text) == Len(NormalForm(text)) < MinLength

\* Normalization hands '' to the embedder for each of them, and the embedder
\* answers with the zero vector, alone or beside another text.
ShortTextsEmbedToZero ==
  \A t \in ShortTexts :
     /\ TooShort(t)
     /\ createEmbedding(preprocessText(t)) = ZeroVector
     /\ createEmbeddings(<<TextRedis, preprocessText(t)>>)[2] = ZeroVector

TooShortSourceTexts == {t \in SourceTexts : TooShort(t)}

EventCount(ev) == Cardinality({k \in 1..Len(ce_trace) : ce_trace[k].ev = ev})

\* C16: every rate-limit delay of a createEmbeddings call lies between two
\* provider requests: it starts right after a request with a batch still to
\* send, and a request follows it; a call that sent k requests and returned
\* has waited k - 1 times.
C16_DelayOnlyBetweenBatches ==
  /\ \A k \in 1..Len(ce_trace) :
        ce_trace[k] = Delay =>
          /\ k > 1 /\ ce_trace[k - 1].ev = "request"
          /\ k < Len(ce_trace) => ce_trace[k + 1].ev = "request"
          /\ k = Len(ce_trace) => (ce_pc = "loop" /\ ce_i < Len(ce_validTexts))
  /\ ce_pc = "delay" =>
        /\ ce_trace[Len(ce_trace)].ev = "request"
        /\ ce_i + MAX_BATCH_SIZE < Len(ce_validTexts)
  /\ (ce_pc = "returned" /\ EventCount("request") > 0) =>
        EventCount("delay") = EventCount("request") - 1
  /\ EventCount("request") = 0 => EventCount("delay") = 0

\* A call that needed three requests has returned after two delays.
C16_ThreeBatchesTwoDelays ==
  /\ ce_pc = "returned"
  /\ EventCount("request") = 3
  /\ EventCount("delay") = 2

\* The texts of the provider requests of a trace, in the order sent.
RECURSIVE SentTexts(_)
SentTexts(trace) ==
  IF trace = <<>> THEN <<>>
  ELSE (IF Head(trace).ev = "request" THEN Head(trace).texts ELSE <<>>)
       \o SentTexts(Tail(trace))

NonBlank(texts) == SelectSeq(texts, LAMBDA t : ~IsBlank(t))

ExpectedKind(cause) ==
  IF cause.status = 400 THEN "InvalidInput" ELSE "EmbeddingProviderError"

\* C18: what createEmbedding or createEmbeddings throws names its kind:
\* EmbeddingProviderError when the provider failed, InvalidInput when the
\* input was refused as malformed.
C18_FailureKindIdentifiable ==
  /\ e1_pc = "thrown" => e1_failure.thrown.name = ExpectedKind(e1_failure.cause)
  /\ ce_pc = "thrown" => ce_failure.thrown.name = ExpectedKind(ce_failure.cause)

\* v is a zero-magnitude vector: every component is 0
ZeroMagnitude(v) == \A k \in 1..Len(v) : v[k] = 0

\* C19: cosineSimilarity throws whenever its arguments differ in length,
\* and for arguments of one length of which one has zero magnitude it
\* returns exactly 0, never the outcome of a division by zero.
C19_MismatchThrowsZeroMagnitudeGivesZero ==
  cs_pc # "idle" =>
    /\ Len(cs_a) # Len(cs_b) => cs_pc = "thrown"
    /\ (Len(cs_a) = Len(cs_b) /\ (ZeroMagnitude(cs_a) \/ ZeroMagnitude(cs_b))) =>
          cs_pc = "returned" /\ cs_ret = Zero /\ cs_round = 0

\* v is a unit vector
IsUnit(v) == Accumulate(v, v, Len(v)) = 1

\* C20: for two orthogonal unit vectors of one length cosineSimilarity
\* returns 0, and for a non-zero vector compared with itself it returns 1.
C20_OrthogonalUnitsGiveZeroSelfGivesOne ==
  cs_pc = "returned" =>
    /\ (IsUnit(cs_a) /\ IsUnit(cs_b) /\ Accumulate(cs_a, cs_b, Len(cs_a)) = 0) =>
          cs_ret = Zero /\ cs_round = 0
    /\ (cs_a = cs_b /\ ~ZeroMagnitude(cs_a)) => IsOne(cs_ret) /\ cs_round = 0

\* C21: with retrieval disabled in the configuration the indexer is never
\* started, and handling a user message makes no retrieve call, neither the
\* automatic one of processMessage nor one from the knowledge-base tool.
C21_DisabledMeansNoRetrieval ==
  ~ragEnabled =>
    /\ ~timerOn /\ cycPc = "idle"
    /\ pm_pc # "retrieve" /\ pm_retrieval = "none"
    /\ kb_pc \notin {"retrieve", "broader"} /\ kb_calls = <<>>

\* The step in which the Vector Store answers the search of a retrieve call.
SearchAnswered == rt_pc = "search" /\ rt_pc' \in {"rerank", "returned"}

\* The stored records of the searched scope that score at or above the floor.
Eligible ==
  {x \in store : /\ MatchesScope(x, rt_options.channelName)
                 /\ ScoreAtLeast(cosineSimilarity(rt_queryVector, x.vector),
                                 rt_options.minScore)}

\* C22: the scope filter is applied before ranking: a search with a scope
\* filter and limit k returns min(k, number of in-scope records at or above
\* minScore) records, all of them in the scope, and no in-scope record left
\* out scores above a returned one.
C22_ScopeFilterBeforeRanking ==
  [][SearchAnswered =>
       LET found == rt_candidates'
           ids == {found[k].id : k \in 1..Len(found)}
       IN /\ Len(found) = Min(2 * rt_options.limit, Cardinality(Eligible))
          /\ Cardinality(ids) = Len(found)
          /\ ids \subseteq {x.id : x \in Eligible}
          /\ \A x \in Eligible : x.id \notin ids =>
                \A k \in 1..Len(found) :
                   ~ScoreAbove(cosineSimilarity(rt_queryVector, x.vector), found[k].score)]_vars

\* A scoped search filled its limit with in-scope records while a record of
\* another scope scored above one of them.
C22_OutOfScopeRecordScoredHigher ==
  /\ rt_pc = "returned"
  /\ rt_options.channelName = <<"A">>
  /\ Len(rt_candidates) = 2 * rt_options.limit
  /\ \A k \in 1..Len(rt_candidates) : rt_candidates[k].scope = "A"
  /\ \E x \in store :
        /\ x.scope = "B"
        /\ \E k \in 1..Len(rt_candidates) :
              ScoreAbove(cosineSimilarity(rt_queryVector, x.vector), rt_candidates[k].score)

C24_TwiceLimitCandidatesLimitResults ==
  [][/\ SearchAnswered =>
          Len(rt_candidates') = Min(2 * rt_options.limit, Cardinality(Eligible))
     /\ rt_pc' = "returned" =>
          /\ Len(rt_ret') <= rt_options.limit
          /\ \A k \in 1..Len(rt_ret') :
                \E j \in 1..Len(rt_candidates') : rt_ret'[k] = rt_candidates'[j]]_vars

\* A re-ranked retrieve got twice its limit as candidates and returned
\* limit of them, the first one not being the best-scoring candidate.
C24_RerankPickedFromHeadroom ==
  /\ rt_pc = "returned" /\ rt_options.rerank
  /\ Len(rt_candidates) = 2 * rt_options.limit
  /\ Len(rt_ret) = rt_options.limit
  /\ rt_ret[1] = rt_candidates[Len(rt_candidates)]

\* C27: the reminder of a one-time task is posted at most once, also when a
\* check starts while an earlier one is still working through its list.
C27_OneTimeTaskPostedAtMostOnce ==
  \A id \in 1..Len(sc_tasks) : ~HasCron(sc_tasks[id]) => sc_tasks[id].posts <= 1

\* the executions of task `id` in flight
RunsOn(runs, id) == Cardinality({k \in 1..Len(runs) : runs[k].cur = id})

\* C28: an execution takes its task from pending to running, and when it
\* returns the task is completed (one-time, message sent), pending again
\* (recurring, message sent) or failed (sending raised); a task is running
\* only while an execution of it is in flight.
C28_PendingRunningThenFinal ==
  [][\A id \in 1..Len(sc_tasks) :
       LET before == sc_tasks[id]
           after == sc_tasks'[id]
       IN /\ RunsOn(sc_runs', id) > RunsOn(sc_runs, id) =>
                before.status = "pending" /\ after.status = "running"
          /\ RunsOn(sc_runs', id) < RunsOn(sc_runs, id) =>
                after.status = IF after.posts = before.posts THEN "failed"
                               ELSE IF HasCron(before) THEN "pending" ELSE "completed"
          /\ after.status = "running" => RunsOn(sc_runs', id) > 0]_vars

\* C29: a task has a cron job only if its cron expression is valid, and
\* scheduleTask gives the task it created a job exactly when the expression
\* is valid; a check executes no task with a cron expression; a task with an
\* invalid expression stays pending and nothing is posted for it.
C29_CronJobIffValidExpression ==
  /\ \A id \in sc_jobs : sc_tasks[id].cron = "valid"
  /\ sc_last = "scheduleTask" =>
        (Len(sc_tasks) \in sc_jobs <=> sc_tasks[Len(sc_tasks)].cron = "valid")
  /\ \A k \in 1..Len(sc_runs) :
        sc_runs[k].kind = "check" => ~HasCron(sc_tasks[sc_runs[k].cur])
  /\ \A id \in 1..Len(sc_tasks) :
        sc_tasks[id].cron = "invalid" =>
          sc_tasks[id].status = "pending" /\ sc_tasks[id].posts = 0

\* A check passed over a pending task with an invalid cron expression and
\* executed the one-time task scheduled after it.
C29_CheckPassedOverInvalidCronTask ==
  \E i, j \in 1..Len(sc_tasks) :
     /\ i < j
     /\ sc_tasks[i].cron = "invalid" /\ sc_tasks[i].status = "pending"
     /\ sc_tasks[j].cron = "none" /\ sc_tasks[j].status = "completed"

\* C30: there is at most one interval timer, the one checkInterval holds,
\* and right after stop() there is no timer, no cron job, and isRunning is
\* false.
C30_AtMostOneTimerNoneAfterStop ==
  /\ sc_timers = IF sc_checkInterval THEN 1 ELSE 0
  /\ sc_isRunning => sc_timers = 1
  /\ sc_last = "stop" => sc_timers = 0 /\ sc_jobs = {} /\ ~sc_isRunning

\* stop() was called on a scheduler that had a recurring task and a check in
\* flight.
C30_StoppedWithJobAndCheckInFlight ==
  /\ sc_last = "stop"
  /\ sc_runs # <<>>
  /\ \E id \in 1..Len(sc_tasks) : sc_tasks[id].cron = "valid"

\* the services named in a start or stop list
Services(list) == {list[k] : k \in 1..Len(list)}

\* The sequence of the header comment, lines 11-19.
DocumentedStartup == <<"database", "vectorStore", "memory", "mcp", "indexer", "slack">>

StartupPosition(service) ==
  CHOOSE k \in 1..Len(DocumentedStartup) : DocumentedStartup[k] = service

\* C25: the services start in the documented order: database, vector store,
\* memory system, MCP servers, indexer (only with RAG enabled), Slack bot;
\* the Slack bot is started only when every earlier step has finished, and
\* when an earlier step fails the process ends without the Slack bot.
C25_StartupFollowsDocumentedSequence ==
  LET started == SelectSeq(lc_started, LAMBDA x : x # "scheduler")
  IN /\ \A j, k \in 1..Len(started) :
           j < k => StartupPosition(started[j]) < StartupPosition(started[k])
     /\ "indexer" \in Services(started) => ragEnabled
     /\ lc_pc \in {"slack", "ready"} =>
           /\ {"database", "mcp"} \subseteq Services(started)
           /\ ragEnabled => {"vectorStore", "indexer"} \subseteq Services(started)
           /\ lc_memoryEnabled => "memory" \in Services(started)
     /\ exitKind = "startup" => "slack" \notin Services(started)

\* C26: when the process exits from shutdown(), with or without a failure,
\* the Slack app, the MCP servers, the indexer (with RAG enabled), the
\* scheduler and the database have all been stopped.
C26_ShutdownStopsEveryService ==
  exitKind \in {"shutdown", "error"} =>
    ({"slack", "mcp", "scheduler", "database"}
       \cup (IF ragEnabled THEN {"indexer"} ELSE {})) \subseteq Services(lc_stopped)

\* C34: the shutdown sequence runs at most once: never are two shutdown()
\* calls in flight in one process, and no service is stopped a second time.
C34_ShutdownRunsAtMostOnce ==
  /\ Len(lc_shutdowns) <= 1
  /\ \A j, k \in 1..Len(lc_stopped) : lc_stopped[j] = lc_stopped[k] => j = k

\* C31: a cancelTask call that returns false (the task is not the caller's
\* or does not exist) changes nothing: the cron jobs and the task rows stay
\* as they were.
C31_RefusedCancelChangesNothing ==
  [][\A taskId \in 1..MaxTasks, userId \in Users :
       (SC_CancelTask(taskId, userId) /\ ~dbCancelTaskReturns(sc_tasks, taskId, userId))
         => (sc_jobs' = sc_jobs /\ sc_tasks' = sc_tasks)]_vars

\* C32: while the scheduler is running, every task with a valid cron
\* expression that was not cancelled has a cron job, also after stop() and
\* start() and after the process was launched again.
C32_RecurringTaskHasCronJob ==
  (proc = "running" /\ sc_isRunning) =>
    \A id \in 1..Len(sc_tasks) :
      (sc_tasks[id].cron = "valid" /\ sc_tasks[id].status # "cancelled") => id \in sc_jobs

\* the number of runs of `runs` that are at record r
RunsAt(runs, r) == Cardinality({k \in 1..Len(runs) : runs[k] = r})

\* C33: with stop() the last scheduler method called, no execution of a
\* task begins, and with the database closed no task row is updated.
C33_NoExecutionAfterStop ==
  [][/\ (sc_last = "stop" /\ sc_last' = "stop") =>
          \A k \in 1..Len(sc_runs') :
             RunsAt(sc_runs', sc_runs'[k]) <= RunsAt(sc_runs, sc_runs'[k])
     /\ (~dbOpen /\ ~dbOpen') => sc_tasks' = sc_tasks]_vars

\* C35: createEmbeddings never returns the zero vector at the position of
\* an input that is not blank, whatever the provider's responses carried.
C35_NoZeroVectorForNonEmptyInput ==
  ce_pc = "returned" =>
    \A k \in 1..Len(ce_texts) : ~IsBlank(ce_texts[k]) => ce_ret[k] # ZeroVector

\* how often the user message `content` stands in `messages`
TimesSent(messages, content) ==
  Cardinality({k \in 1..Len(messages) :
                 messages[k] = [role |-> "user", content |-> content]})

\* C36: every request sent to the model for a user message holds that
\* message exactly once.
C36_MessageSentExactlyOnce ==
  \A k \in 1..Len(pm_requests) : TimesSent(pm_requests[k].messages, pm_msg) = 1

====
